---------------------------- MODULE Spec2Model ----------------------------
(***************************************************************************)
(* A model of the sharded key/value store of srkaysh/Key-Value-store:      *)
(*   - src/src/shardkv/server.go : the ShardKV replica (apply loop, shard  *)
(*     status machine, migration sender and receiver, client handlers);    *)
(*   - src/src/raft/raft.go      : the Raft core;                          *)
(*   - src/unnamed/part_000      : the single-group KVServer of kvraft;    *)
(*   - src/src/mapreduce/schedule.go : schedule() of mapreduce, and the    *)
(*     Clerk of kvraft.                                                    *)
(* The module holds several specifications over one set of variables.      *)
(* Each specification moves the variables of its own part and leaves the   *)
(* others at their initial value.                                          *)
(*   Spec         : replica groups, configurations, shard migration and    *)
(*                  the apply loop of one replica of each group            *)
(*                  (server.go).  Raft is seen through its interface:      *)
(*                  Start appends to the leader's log, committed entries   *)
(*                  reach every replica in log order, a new leader keeps   *)
(*                  the committed prefix.                                  *)
(*   SpecReplica  : the same actions with both replicas of group 1         *)
(*                  followed, snapshots enabled, InstallSnapshot and       *)
(*                  restarts of followers.                                 *)
(*   SpecDup      : one replica of group 1 and a client that issues two    *)
(*                  operations, whose requests may be delivered again.     *)
(*   SpecHandler  : the Get and PutAppend handlers step by step (Start,    *)
(*                  await, reply) next to the apply loop, with elections.  *)
(*   SpecElection : the Raft peers of one group, beginElection and its     *)
(*                  reply goroutines step by step, RequestVote and         *)
(*                  becomeLeader (raft.go).                                *)
(*   SpecRaft     : the Raft peers of one group with logs: Start,          *)
(*                  sendAppendEntries, AppendEntries, updateCommitIndex    *)
(*                  and elections run without interleaving (raft.go).      *)
(*   SpecCommit   : the actions of SpecRaft with longer logs and the       *)
(*                  election timer firing at two of the peers (raft.go).   *)
(*   SpecEntry    : SpecHandler with the poller and the migration, and     *)
(*                  client requests reaching any replica (server.go).      *)
(*   SpecImport   : migration with both replicas of the source group,      *)
(*                  client writes and retried MigrateShard calls.          *)
(*   SpecRound    : a client that writes and then reads one key through    *)
(*                  the handlers of both replicas of group 1.              *)
(*   SpecPersist  : two Raft peers with the persister: persist,            *)
(*                  PersistAndSaveSnapshot, InstallSnapshot and Make.      *)
(*   SpecVote     : SpecElection's actions with the votes a peer granted   *)
(*                  recorded per term.                                     *)
(*   SpecLive     : migration between two groups under weak fairness of    *)
(*                  every step, with replies of MigrateShard that may be   *)
(*                  lost.                                                  *)
(*   SpecTerm     : SpecElection's actions with terms that let a reply of  *)
(*                  an earlier election arrive late.                       *)
(*   SpecSnap     : two Raft peers with snapshots, messages in flight and  *)
(*                  the apply loop step by step (raft.go).                 *)
(*   SpecLogTerm  : elections step by step and Start, for the terms of     *)
(*                  the log.                                               *)
(*   SpecApply    : SpecSnap's actions with a restart of the follower;     *)
(*                  SpecApplyLive adds weak fairness of the apply loops.   *)
(*   SpecLoad     : SpecSnap's actions with the KV map and the duplicate   *)
(*                  table of the service, and a restart of the follower.   *)
(*   SpecProbe    : a leader that stays leader and its follower, for the   *)
(*                  back-off of nextIndex; SpecProbeLive adds weak         *)
(*                  fairness of the senders, the delivery and the loops.   *)
(*   SpecConfig   : Spec's actions without client requests, with three     *)
(*                  configurations.                                        *)
(*   SpecTask     : the tasks of one replica and kv.mu statement by        *)
(*                  statement (poller, apply loop with the migration       *)
(*                  sender, PutAppend handler, MigrateShard handler).      *)
(*   SpecKill     : the long-running tasks of SpecTask with Kill;          *)
(*                  SpecKillLive adds strong fairness of the tasks.        *)
(*   SpecClerk    : the Clerk of kvraft, its retries and its seqid.        *)
(*   SpecKVServer : the KVServer of kvraft, its handlers up to Start and   *)
(*                  applyDaemon.                                           *)
(*   SpecSchedule : schedule() of mapreduce with workers whose calls may   *)
(*                  fail.                                                  *)
(***************************************************************************)
EXTENDS Integers, Sequences, FiniteSets, TLC

(***************************************************************************)
(* Bounds of the model.                                                    *)
(***************************************************************************)
MaxCfg == 2        \* configurations the shard master publishes after config 0
MaxSerial == 1     \* serial numbers a client uses
MaxLog == 4        \* entries in the Raft log of one group
MaxTerm == 2       \* Raft terms of one group
RepMaxCfg == 2     \* the same four bounds for SpecReplica
RepMaxSerial == 1
RepMaxLog == 4
RepMaxTerm == 1
RepMaxRaftState == 2   \* maxraftstate of SpecReplica, in log entries
DupMaxCfg == 1     \* and the four bounds for SpecDup
DupMaxSerial == 2
DupMaxLog == 4
DupMaxTerm == 2
HMaxCfg == 2       \* and the bounds for SpecHandler
HMaxLog == 2
HMaxTerm == 3      \* terms of group 1 in SpecHandler
HMaxTerm2 == 1     \* terms of group 2 in SpecHandler
HMaxCalls == 3     \* Get and PutAppend handlers that reach Start
EMaxCfg == 2       \* the bounds of SpecEntry
EMaxLog == 3
EMaxTerm == 1       \* terms of group 1
EMaxTerm2 == 2      \* terms of group 2, the destination of the migration
EMaxCalls == 2
ImMaxCfg == 2
ImMaxSerial == 2
ImMaxLog == 5
ImMaxLog2 == 4
ImMaxTerm == 2
ImMaxTerm2 == 1
RnMaxCfg == 1
RnMaxSerial == 2
RnMaxLog == 2
RnMaxTerm == 4
RnMaxCalls == 3
PsMaxTerm == 2
PsMaxLog == 3
PsMaxRaftState == 2
PsMaxInFlight == 1
VtMaxTerm == 2
VtMaxElections == 2
VtMaxElections2 == 1
VtMaxInFlight == 2
LvMaxCfg == 2
LvMaxLog == 4
LvMaxTerm == 1
TmMaxTerm == 3
TmMaxElections == 3
TmMaxElections2 == 2
TmMaxInFlight == 1
SnMaxTerm == 1
SnMaxLog == 2
SnMaxInFlight == 2
SnMaxReplies == 1
SnMaxSnapInFlight == 1
SnMaxNotify == 1
LtMaxTerm == 4
LtMaxElections == 3
LtMaxElections1 == 2
LtMaxLog == 2
LtMaxInFlight == 1
ApMaxInFlight == 1
LdMaxRaftState == 1
PrMaxLog == 3
PrMaxRaftState == 3
PrMaxInFlight == 2
CfMaxCfg == 3
CfMaxLog == 5
CfMaxTerm == 2
CkMaxOps == 2
CkMaxSends == 4
KsMaxSeq == 2
KsMaxLog == 4
KsMaxRaftState == 10
MrTasks == 3
MrWorkers == 2
ElMaxTerm == 2     \* terms of SpecElection
ElMaxElections == 1    \* calls of beginElection by one peer in SpecElection
RaftMaxTerm == 2   \* terms of SpecRaft
RaftMaxLog == 1    \* entries a leader appends to an empty log in SpecRaft
RaftMaxInFlight == 2   \* AppendEntries calls in flight in SpecRaft
CmMaxTerm == 2     \* the same three bounds for SpecCommit
CmMaxLog == 2
CmMaxInFlight == 2

Gids == {1, 2}                 \* replica groups (gid 0 is "no group")
Replicas == {1, 2}             \* kv.me of the replicas of one group
Servers == {<<1, 1>>, <<1, 2>>, <<2, 1>>}    \* <<gid, me>> of the replicas followed
Shards == {0, 1}               \* shardmaster.NShards shards
Keys == {"a", "b"}
Clients == {1}

gidOf(s) == s[1]

\* client.go key2shard: a stable map from keys to shards
key2shard(k) == IF k = "a" THEN 0 ELSE 1

(***************************************************************************)
(* server.go:36-43.  AVAILABLE is iota 0, the zero value of ShardStatus.   *)
(***************************************************************************)
AVAILABLE == "AVAILABLE"
EXPORTING == "EXPORTING"
IMPORTING == "IMPORTING"
NOTOWNED == "NOTOWNED"

VARIABLES
    configs,      \* shard master: configs[n] is configuration n, n in 0..newest
    kv,           \* kv[s]: Kvmap, latestRequests, ShardStatusList, LatestCfg, SnapshotIndex
    rlog,         \* rlog[g]: the log of group g's Raft, entries [Term, Cmd]
    rcommit,      \* rcommit[g]: commit index of group g
    rterm,        \* rterm[g]: current term of group g
    leader,       \* leader[g]: kv.me of the replica for which rf.IsLeader() holds
    lastApplied,  \* lastApplied[s]: index of the last entry the apply loop of s applied
    snapshot,     \* snapshot[s]: the persisted snapshot blob of s
    sending,      \* sending[s]: the sendMigrateShard call the apply loop of s is inside
    issued,       \* issued[c]: the operations client c has issued, by serial
    exported,     \* history: <<gid, shard, cfg>> whose ExportComplete deleted the shard
    calls,        \* the Get and PutAppend handlers that called Start, in order of arrival
    requestHandlers,  \* requestHandlers[s]: index -> the call whose await registered there
    mutex,        \* mutex[s]: the mutex of kv is held by a handler that has returned
    ckconfig,     \* ckconfig[c]: the number of the configuration clerk c holds
    term,         \* term[p]: rf.term of Raft peer p
    state,        \* state[p]: rf.state
    votedFor,     \* votedFor[p]: rf.votedFor, -1 for none
    log,          \* log[p]: rf.log, entries [Cmd, Term, Index]
    commitIndex,  \* commitIndex[p]: rf.commitIndex
    nextIndex,    \* nextIndex[p][q]: rf.nextIndex of p for peer q
    matchIndex,   \* matchIndex[p][q]: rf.matchIndex of p for peer q
    voteCount,    \* voteCount[p][e]: voteCount of the e-th call of beginElection by p
    pendingLeader,    \* pendingLeader[p]: a becomeLeader goroutine of p has not run yet
    rvRequests,   \* RequestVote calls in flight
    rvReplies,    \* RequestVote replies and the goroutines of beginElection handling them
    aeRequests,   \* AppendEntries calls in flight
    aeReplies,    \* AppendEntries replies in flight
    lastSnapshot, \* lastSnapshot[p]: rf.lastSnapshotIndex and rf.lastSnapshotTerm
    persister,    \* persister[p]: the raftstate and snapshot that the Persister of p holds
    applier,      \* applier[p]: rf.lastApplied and the apply loop of the service of p
    isRequests,   \* InstallSnapshot calls in flight
    isReplies,    \* InstallSnapshot replies in flight
    notifyApplyCh,    \* notifyApplyCh[p]: the notifications waiting in rf.notifyApplyCh
    applyLoop,    \* applyLoop[p]: where startLocalApplyProcess of p is, and its locals
    delivered,    \* delivered[p]: the index the ApplyMsgs sent so far bring the service to
    votesGranted, \* history: <<q, t, c>>, peer q granted its vote in term t to c
    kvmu,         \* kv.mu of the replica whose tasks are followed: the task holding it, or NoTask
    taskpc,       \* taskpc[t]: where task t of that replica is
    pollerLeft,   \* configurations the poller has still to start in this round
    sendSi,       \* si of sendMigrateShard: the destination server it calls next
    isDecommissioned, \* kv.isDecommissioned, set with close(kv.shutdown) by Kill
    ck,           \* the Clerk of kvraft: leader, seqid, and where Get or PutAppend is
    ckCalls,      \* the goroutines of the Clerk whose Call has not returned
    ckSent,       \* history: the args the Clerk sent, in order, with the operation's number
    kvs,          \* the KVServer of kvraft: db, duplicate, snapshotIndex, notifyChs, applied
    kvsLog,       \* the commands Start was called with, in the order Raft commits them
    kvsWrites,    \* history: <<ClientId, SeqId>> of every Put or Append written to db
    mrTask,       \* schedule(): mrTask[t] is the goroutine of task t, its place and workerName
    registerChan, \* the workers whose send on registerChan waits for a receiver
    waitGroup,    \* the counter of wait_group
    mrReturned,   \* schedule() has returned
    mrRegistered, \* the workers that have registered
    mrSucceeded,  \* history: the tasks for which a Worker.DoTask call returned true
    mrCompleted,  \* history: the workers for which a Worker.DoTask call returned true
    mrHandedBack  \* history: the workers schedule() has sent back on registerChan

shardVars == <<configs, kv, rlog, rcommit, rterm, leader, lastApplied, snapshot,
               sending, issued, exported>>
handlerVars == <<calls, requestHandlers, mutex>>
taskVars == <<kvmu, taskpc, pollerLeft, sendSi, isDecommissioned>>
\* the components that are followed on their own
clerkVars == <<ck, ckCalls, ckSent>>
kvsVars == <<kvs, kvsLog, kvsWrites>>
mrVars == <<mrTask, registerChan, waitGroup, mrReturned, mrRegistered, mrSucceeded,
            mrCompleted, mrHandedBack>>
sideVars == <<taskVars, clerkVars, kvsVars, mrVars>>
raftVars == <<term, state, votedFor, log, commitIndex, nextIndex, matchIndex, voteCount,
              pendingLeader, rvRequests, rvReplies, aeRequests, aeReplies>>
applyVars == <<isReplies, notifyApplyCh, applyLoop, delivered>>
persistVars == <<lastSnapshot, persister, applier, isRequests, applyVars>>
mainVars == <<shardVars, handlerVars, ckconfig, raftVars, persistVars, votesGranted>>
\* what the steps of one component leave unchanged
taskFrame == <<mainVars, clerkVars, kvsVars, mrVars>>
clerkFrame == <<mainVars, taskVars, kvsVars, mrVars>>
kvsFrame == <<mainVars, taskVars, clerkVars, mrVars>>
mrFrame == <<mainVars, taskVars, clerkVars, kvsVars>>

(***************************************************************************)
(* Go maps: functions with a finite domain.                                *)
(***************************************************************************)
EmptyMap == [x \in {} |-> 0]
MapPut(m, k, v) == [x \in (DOMAIN m) \cup {k} |-> IF x = k THEN v ELSE m[x]]
MapDel(m, k) == [x \in (DOMAIN m) \ {k} |-> m[x]]
\* m[k] of a Go map[string]string: "" for an absent key
MapGet(m, k) == IF k \in DOMAIN m THEN m[k] ELSE <<>>

(***************************************************************************)
(* server.go:59-76, type Op.  Strings are sequences of characters.         *)
(***************************************************************************)
ZeroOp == [Method |-> "", Key |-> "", Value |-> <<>>, ClientId |-> 0, SerialNum |-> 0,
           Kvmap |-> EmptyMap, LatestRequests |-> EmptyMap,
           ShardNumber |-> 0, BroadcastCfgVersion |-> 0]

ZeroCfg == [Num |-> 0, Shards |-> [sh \in Shards |-> 0]]

\* shardmaster Clerk.Query: configuration num, the newest for -1 or a number not yet known
Query(num) ==
    LET newest == Len(configs) - 1
    IN  IF num = -1 \/ num > newest THEN configs[newest + 1] ELSE configs[num + 1]

(***************************************************************************)
(* server.go:689-733, StartServer: the state of a replica with no snapshot *)
(***************************************************************************)
FreshKV == [Kvmap |-> EmptyMap,
            latestRequests |-> [sh \in Shards |-> EmptyMap],
            ShardStatusList |-> [sh \in Shards |-> AVAILABLE],
            LatestCfg |-> ZeroCfg,
            SnapshotIndex |-> 0]

NoSnapshot == [present |-> FALSE, data |-> FreshKV]
NoSend == [active |-> FALSE, resume |-> FALSE, shard |-> 0, destGid |-> 0, cfg |-> ZeroCfg,
           Kvmap |-> EmptyMap, Duplicate |-> EmptyMap]


(***************************************************************************)
(* server.go:315-322                                                       *)
(***************************************************************************)
isRequestDuplicate(st, shard, clientId, requestId) ==
    /\ shard \in DOMAIN st.latestRequests
    /\ clientId \in DOMAIN st.latestRequests[shard]
    /\ st.latestRequests[shard][clientId] = requestId

(***************************************************************************)
(* server.go:324-336.  The status of the key's shard is not read.          *)
(***************************************************************************)
applyClientOp(st, cmd) ==
    LET sh == key2shard(cmd.Key)
    IN  IF ~isRequestDuplicate(st, sh, cmd.ClientId, cmd.SerialNum) /\ cmd.Method # "Get"
        THEN [st EXCEPT
                !.Kvmap = IF cmd.Method = "Put"
                          THEN MapPut(@, cmd.Key, cmd.Value)
                          ELSE IF cmd.Method = "Append"
                               THEN MapPut(@, cmd.Key, MapGet(@, cmd.Key) \o cmd.Value)
                               ELSE @,
                !.latestRequests[sh] = MapPut(@, cmd.ClientId, cmd.SerialNum)]
        ELSE st

\* the keys of m that hash to shard
shardKeys(m, shard) == {k \in DOMAIN m : key2shard(k) = shard}

(***************************************************************************)
(* server.go:365-379, case "ExportComplete": the keys deleted are those of *)
(* the command's own Kvmap.                                                *)
(***************************************************************************)
applyExportComplete(st, cmd) ==
    IF st.ShardStatusList[cmd.ShardNumber] = EXPORTING
    THEN [st EXCEPT
            !.Kvmap = [k \in (DOMAIN @) \ shardKeys(cmd.Kvmap, cmd.ShardNumber) |-> @[k]],
            !.ShardStatusList[cmd.ShardNumber] = NOTOWNED]
    ELSE st

\* server.go:386-390 and 401-405: copy the command's pairs of the shard into the map
mergeKvmap(m, cmd) ==
    [k \in (DOMAIN m) \cup shardKeys(cmd.Kvmap, cmd.ShardNumber) |->
        IF k \in shardKeys(cmd.Kvmap, cmd.ShardNumber) THEN cmd.Kvmap[k] ELSE m[k]]

\* server.go:392-394
mergeLatestRequests(m, cmd) ==
    [c \in (DOMAIN m) \cup (DOMAIN cmd.LatestRequests) |->
        IF c \in DOMAIN cmd.LatestRequests THEN cmd.LatestRequests[c] ELSE m[c]]

(***************************************************************************)
(* server.go:380-408, case "ImportComplete".  When the status is not       *)
(* IMPORTING the pairs are merged and the status forced to AVAILABLE, and  *)
(* the duplicate table of the command is not merged.                       *)
(***************************************************************************)
applyImportComplete(st, cmd) ==
    IF st.ShardStatusList[cmd.ShardNumber] = IMPORTING
    THEN [st EXCEPT
            !.Kvmap = mergeKvmap(@, cmd),
            !.latestRequests[cmd.ShardNumber] = mergeLatestRequests(@, cmd),
            !.ShardStatusList[cmd.ShardNumber] = AVAILABLE]
    ELSE [st EXCEPT
            !.Kvmap = mergeKvmap(@, cmd),
            !.ShardStatusList[cmd.ShardNumber] = AVAILABLE]

\* server.go:527-534
shardTransferInProgress(st) ==
    \E sh \in Shards : st.ShardStatusList[sh] \in {EXPORTING, IMPORTING}

NShards == Cardinality(Shards)

\* server.go:583-588: walk back while the shard was ours
RECURSIVE lastConfigOf(_, _, _)
lastConfigOf(lastConfig, shardIndex, gid) ==
    IF lastConfig.Num > 1 /\ lastConfig.Shards[shardIndex] = gid
    THEN lastConfigOf(Query(lastConfig.Num - 1), shardIndex, gid)
    ELSE lastConfig

(***************************************************************************)
(* server.go:545-604, the loop of applyConfigOperation over the shards,    *)
(* from shardIndex on.  The result is the replica state and, when the      *)
(* replica is the leader and loses an AVAILABLE shard, the                 *)
(* sendMigrateShard call (server.go:813-830) the loop is now inside: the   *)
(* request holds a copy of the whole Kvmap and of the shard's duplicate    *)
(* table.  Otherwise the loop runs to its end and LatestCfg is set         *)
(* (server.go:615).                                                        *)
(***************************************************************************)
RECURSIVE cfgLoop(_, _, _, _, _)
cfgLoop(st, cfg, gid, shardIndex, isLeader) ==
    IF shardIndex >= NShards
    THEN [st |-> [st EXCEPT !.LatestCfg = cfg], send |-> NoSend]
    ELSE
    LET newGid == cfg.Shards[shardIndex]
        cachedGid == st.LatestCfg.Shards[shardIndex]
        shardStatus == st.ShardStatusList[shardIndex]
        set(v) == [st EXCEPT !.ShardStatusList[shardIndex] = v]
    IN  IF cachedGid = gid /\ newGid # gid
        THEN IF shardStatus = AVAILABLE
             THEN IF isLeader
                  THEN [st |-> set(EXPORTING),
                        send |-> [active |-> TRUE, resume |-> FALSE, shard |-> shardIndex,
                                  destGid |-> newGid, cfg |-> cfg,
                                  Kvmap |-> st.Kvmap,
                                  Duplicate |-> st.latestRequests[shardIndex]]]
                  ELSE cfgLoop(set(EXPORTING), cfg, gid, shardIndex + 1, isLeader)
             ELSE cfgLoop(set(NOTOWNED), cfg, gid, shardIndex + 1, isLeader)
        ELSE IF cachedGid # gid /\ newGid = gid
        THEN IF shardStatus = NOTOWNED
             THEN LET lastConfig == lastConfigOf(cfg, shardIndex, gid)
                      first == IF cachedGid # 0 THEN IMPORTING ELSE AVAILABLE
                  IN  IF lastConfig.Num = 1 /\ lastConfig.Shards[shardIndex] = gid
                      THEN cfgLoop(set(AVAILABLE), cfg, gid, shardIndex + 1, isLeader)
                      ELSE cfgLoop(set(first), cfg, gid, shardIndex + 1, isLeader)
             ELSE IF newGid # gid /\ shardStatus = IMPORTING
                  THEN cfgLoop(set(NOTOWNED), cfg, gid, shardIndex + 1, isLeader)
                  ELSE cfgLoop(st, cfg, gid, shardIndex + 1, isLeader)
        ELSE cfgLoop(st, cfg, gid, shardIndex + 1, isLeader)

\* applyConfigOperation that absorbs the next configuration during a transfer as well
applyConfigOperationDuringTransfer(st, num, gid, isLeader) ==
    IF st.LatestCfg.Num + 1 # num
    THEN [st |-> st, send |-> NoSend]
    ELSE LET cfg == Query(num)
         IN  IF cfg.Num > 1
             THEN cfgLoop(st, cfg, gid, 0, isLeader)
             ELSE IF cfg.Num = 1
                  THEN [st |-> [st EXCEPT
                                  !.ShardStatusList =
                                      [sh \in Shards |-> IF cfg.Shards[sh] = gid
                                                         THEN AVAILABLE ELSE NOTOWNED],
                                  !.LatestCfg = cfg],
                        send |-> NoSend]
                  ELSE [st |-> [st EXCEPT !.LatestCfg = cfg], send |-> NoSend]

(***************************************************************************)
(* server.go:526-616, applyConfigOperation(num) up to its first            *)
(* sendMigrateShard call.                                                  *)
(***************************************************************************)
applyConfigOperation(st, num, gid, isLeader) ==
    IF st.LatestCfg.Num + 1 # num \/ shardTransferInProgress(st)
    THEN [st |-> st, send |-> NoSend]
    ELSE LET cfg == Query(num)
         IN  IF cfg.Num > 1
             THEN cfgLoop(st, cfg, gid, 0, isLeader)
             ELSE IF cfg.Num = 1
                  THEN [st |-> [st EXCEPT
                                  !.ShardStatusList =
                                      [sh \in Shards |-> IF cfg.Shards[sh] = gid
                                                         THEN AVAILABLE ELSE NOTOWNED],
                                  !.LatestCfg = cfg],
                        send |-> NoSend]
                  ELSE [st |-> [st EXCEPT !.LatestCfg = cfg], send |-> NoSend]


(***************************************************************************)
(* The state after construction: the shard master knows configuration 0,   *)
(* every replica is as StartServer leaves it, no group has a leader.       *)
(***************************************************************************)
ShardInit ==
    /\ configs = <<ZeroCfg>>
    /\ kv = [s \in Servers |-> FreshKV]
    /\ rlog = [g \in Gids |-> <<>>]
    /\ rcommit = [g \in Gids |-> 0]
    /\ rterm = [g \in Gids |-> 0]
    /\ leader = [g \in Gids |-> 0]
    /\ lastApplied = [s \in Servers |-> 0]
    /\ snapshot = [s \in Servers |-> NoSnapshot]
    /\ sending = [s \in Servers |-> NoSend]
    /\ issued = [c \in Clients |-> <<>>]
    /\ exported = {}
    /\ calls = <<>>
    /\ requestHandlers = [s \in Servers |-> EmptyMap]
    /\ mutex = [s \in Servers |-> FALSE]
    /\ ckconfig = [c \in Clients |-> 0]

\* The Raft peers of one group (raft.go): names of the states and of "no vote".
Peers == {1, 2, 3}
Follower == "Follower"
Candidate == "Candidate"
Leader == "Leader"
NoVote == -1
lastSnapshotIndex == 0
lastSnapshotTerm == 0

\* len(rf.peers)/2 with Go's integer division
halfOfPeers == Cardinality(Peers) \div 2

Max(a, b) == IF a > b THEN a ELSE b
Min(a, b) == IF a < b THEN a ELSE b

\* Make: a follower of term 0 that has voted for nobody, with an empty log.
RaftInit ==
    /\ term = [p \in Peers |-> 0]
    /\ state = [p \in Peers |-> Follower]
    /\ votedFor = [p \in Peers |-> NoVote]
    /\ log = [p \in Peers |-> <<>>]
    /\ commitIndex = [p \in Peers |-> 0]
    /\ nextIndex = [p \in Peers |-> [q \in Peers |-> 0]]
    /\ matchIndex = [p \in Peers |-> [q \in Peers |-> 0]]
    /\ voteCount = [p \in Peers |-> <<>>]
    /\ pendingLeader = [p \in Peers |-> FALSE]
    /\ rvRequests = {}
    /\ rvReplies = {}
    /\ aeRequests = {}
    /\ aeReplies = {}

\* raft.go:1037-1046 and server.go:689-733 with an empty Persister: no snapshot, nothing
\* applied, no RPC in flight, no vote granted
\* startLocalApplyProcess waits for a notification (raft.go:947-949)
IdleLoop == [pc |-> "idle", cachedCommitIndex |-> 0, cachedLocalApplied |-> 0,
             cachedSnapshotIndex |-> 0, entries |-> <<>>, sent |-> 0]

PersistInit ==
    /\ lastSnapshot = [p \in Peers |-> [Index |-> 0, Term |-> 0]]
    /\ persister = [p \in Peers |-> [raftstate |-> <<>>, snapshot |-> <<>>]]
    /\ applier = [p \in Peers |-> [lastApplied |-> 0, lastCommandIndex |-> 0,
                                   pending |-> FALSE, SnapshotIndex |-> 0,
                                   Kvmap |-> FreshKV.Kvmap,
                                   latestRequests |-> FreshKV.latestRequests]]
    /\ isRequests = {}
    /\ isReplies = {}
    /\ notifyApplyCh = [p \in Peers |-> 0]
    /\ applyLoop = [p \in Peers |-> IdleLoop]
    /\ delivered = [p \in Peers |-> 0]
    /\ votesGranted = {}

\* the tasks of one shardkv replica (server.go): the configuration poller, the
\* apply loop, a Get/PutAppend handler and the MigrateShard handler
NoTask == "none"
Tasks == {"poller", "applier", "handler", "receiver"}

\* StartServer, server.go:717-730: not decommissioned, the poller at its timer, the
\* apply loop at its select, no RPC being handled
TaskInit ==
    /\ kvmu = NoTask
    /\ taskpc = [t \in Tasks |-> CASE t = "poller" -> "timer"
                                   [] t = "applier" -> "select"
                                   [] OTHER -> "idle"]
    /\ pollerLeft = 0
    /\ sendSi = 0
    /\ isDecommissioned = FALSE

\* the servers the Clerk of kvraft knows, and its id
NServers == 3
CkClientId == 1

\* MakeClerk (kvraft client, schedule.go:99-109): seqid 1, leader len(servers); no
\* operation called yet
ClerkInit ==
    /\ ck = [leader |-> NServers, seqid |-> 1, pc |-> "idle", op |-> 0, kind |-> "",
             attempt |-> 0, done |-> <<>>]
    /\ ckCalls = {}
    /\ ckSent = <<>>

\* StartKVServer (kvraft server, part_000:268-288) with an empty Persister
KVServerInit ==
    /\ kvs = [db |-> EmptyMap, duplicate |-> EmptyMap, snapshotIndex |-> 0,
              notifyChs |-> {}, applied |-> 0]
    /\ kvsLog = <<>>
    /\ kvsWrites = <<>>

\* the tasks of the phase, 0..ntasks-1, and the workers that may register
MrTaskIds == 0..(MrTasks - 1)
MrWorkerNames == 1..MrWorkers

\* schedule() (schedule.go:35-56) after its loop: wait_group holds ntasks and one
\* goroutine per task is about to receive from registerChan; no worker yet
ScheduleInit ==
    /\ mrTask = [t \in MrTaskIds |-> [pc |-> "receive", workerName |-> 0]]
    /\ registerChan = {}
    /\ waitGroup = MrTasks
    /\ mrReturned = FALSE
    /\ mrRegistered = {}
    /\ mrSucceeded = {}
    /\ mrCompleted = {}
    /\ mrHandedBack = {}

SideInit == TaskInit /\ ClerkInit /\ KVServerInit /\ ScheduleInit

Init == ShardInit /\ RaftInit /\ PersistInit /\ SideInit


IsLeader(s) == leader[gidOf(s)] = s[2]

\* raft.go:536-563, Start on the leader of group g: the log with cmd appended
StartIn(lg, g, cmd) == [lg EXCEPT ![g] = Append(@, [Term |-> rterm[g], Cmd |-> cmd])]

(***************************************************************************)
(* The shard master publishes the next configuration (Join, Leave, Move):  *)
(* every shard is assigned to a group.                                     *)
(***************************************************************************)
Publish(shards) ==
    /\ shards # configs[Len(configs)].Shards
    /\ configs' = Append(configs, [Num |-> Len(configs), Shards |-> shards])
    /\ UNCHANGED <<kv, rlog, rcommit, rterm, leader, lastApplied, snapshot, sending,
                   issued, exported, handlerVars, ckconfig>>

(***************************************************************************)
(* An election in group g (raft.go:794-859, 760-784): replica r becomes    *)
(* leader of the next term.  Its log holds every committed entry and the   *)
(* first n entries of the old leader's log (all of them when r was the     *)
(* leader already).                                                        *)
(***************************************************************************)
BecomeLeader(g, r, n) ==
    /\ n \in rcommit[g]..Len(rlog[g])
    /\ r = leader[g] => n = Len(rlog[g])
    /\ rterm' = [rterm EXCEPT ![g] = @ + 1]
    /\ leader' = [leader EXCEPT ![g] = r]
    /\ rlog' = [rlog EXCEPT ![g] = SubSeq(@, 1, n)]
    /\ UNCHANGED <<configs, kv, rcommit, lastApplied, snapshot, sending, issued, exported,
                   handlerVars, ckconfig>>

\* raft.go:579-608, updateCommitIndex: the next entry of the leader's log is committed
Commit(g) ==
    /\ leader[g] # 0
    /\ rcommit[g] < Len(rlog[g])
    /\ rcommit' = [rcommit EXCEPT ![g] = @ + 1]
    /\ UNCHANGED <<configs, kv, rlog, rterm, leader, lastApplied, snapshot, sending,
                   issued, exported, handlerVars, ckconfig>>

(***************************************************************************)
(* server.go:618-659, periodCheckShardMasterConfig on the leader: one      *)
(* ApplyConfig per configuration number after LatestCfg.Num.               *)
(***************************************************************************)
RECURSIVE pollOps(_, _)
pollOps(curCfgNum, latestNum) ==
    IF curCfgNum > latestNum THEN <<>>
    ELSE <<[Term |-> 0,
            Cmd |-> [ZeroOp EXCEPT !.Method = "ApplyConfig",
                                   !.BroadcastCfgVersion = curCfgNum]]>>
         \o pollOps(curCfgNum + 1, latestNum)

\* the log of s's group holds an ApplyConfig that s has not applied yet
PendingApplyConfig(s) ==
    \E j \in (lastApplied[s] + 1)..Len(rlog[gidOf(s)]) :
        rlog[gidOf(s)][j].Cmd.Method = "ApplyConfig"

periodCheckShardMasterConfig(s) ==
    LET g == gidOf(s)
        latestCfg == Query(-1)
        ops == pollOps(kv[s].LatestCfg.Num + 1, latestCfg.Num)
    IN  /\ ~mutex[s]
        /\ IsLeader(s)
        /\ ops # <<>>
        /\ ~PendingApplyConfig(s)
        /\ rlog' = [rlog EXCEPT ![g] =
                      @ \o [i \in 1..Len(ops) |-> [ops[i] EXCEPT !.Term = rterm[g]]]]
        /\ UNCHANGED <<configs, kv, rcommit, rterm, leader, lastApplied, snapshot,
                       sending, issued, exported, handlerVars, ckconfig>>

\* checkIfOwnsKey that takes an EXPORTING shard for an owned one
checkIfHoldsKey(st, key) == st.ShardStatusList[key2shard(key)] \in {AVAILABLE, EXPORTING}

(***************************************************************************)
(* server.go:201-216                                                       *)
(***************************************************************************)
checkIfOwnsKey(st, key) == st.ShardStatusList[key2shard(key)] = AVAILABLE

\* some replica has applied the operation (c, serial)
Acked(c, serial) ==
    \E s \in Servers : \E j \in 1..lastApplied[s] :
        /\ j <= Len(rlog[gidOf(s)])
        /\ rlog[gidOf(s)][j].Cmd.ClientId = c
        /\ rlog[gidOf(s)][j].Cmd.SerialNum = serial

(***************************************************************************)
(* client.go, Clerk: a request of clerk c for key goes to the group that   *)
(* the configuration the clerk holds assigns the key's shard to.  The      *)
(* clerk holds the configuration it held at its last request or one it     *)
(* queried since, published later.                                         *)
(***************************************************************************)
Routed(c, g, key) ==
    \E n \in ckconfig[c]..(Len(configs) - 1) :
        /\ configs[n + 1].Shards[key2shard(key)] = g
        /\ ckconfig' = [ckconfig EXCEPT ![c] = n]

\* the operations of a client: a Put first, Appends after it
MethodOf(serial) == IF serial = 1 THEN "Put" ELSE "Append"

(***************************************************************************)
(* server.go:270-296, PutAppend up to Start, on a leader that owns the     *)
(* key's shard.  The request is the client's next operation (issued once   *)
(* the previous one was applied) or a copy of one it issued before (a      *)
(* retry, or a request the network delivers late).                         *)
(***************************************************************************)
PutAppendStart(s, c, serial, key) ==
    LET g == gidOf(s)
        fresh == serial = Len(issued[c]) + 1
        args == IF fresh
                THEN [ZeroOp EXCEPT !.Method = MethodOf(serial), !.Key = key,
                                    !.Value = <<serial>>,
                                    !.ClientId = c, !.SerialNum = serial]
                ELSE issued[c][serial]
    IN  /\ serial \in 1..(Len(issued[c]) + 1)
        /\ fresh => (serial = 1 \/ Acked(c, serial - 1))
        /\ ~fresh => key = args.Key
        /\ ~mutex[s]
        /\ IsLeader(s)
        /\ checkIfOwnsKey(kv[s], args.Key)
        /\ Routed(c, g, args.Key)
        /\ rlog' = StartIn(rlog, g, args)
        /\ issued' = IF fresh THEN [issued EXCEPT ![c] = Append(@, args)] ELSE issued
        /\ UNCHANGED <<configs, kv, rcommit, rterm, leader, lastApplied, snapshot,
                       sending, exported, handlerVars>>


\* a snapshot that encodes the fields before SnapshotIndex is set to the command's index
encodeSnapshotAtPreviousIndex(st, lastCommandIndex) ==
    [Kvmap |-> st.Kvmap, SnapshotIndex |-> st.SnapshotIndex,
     latestRequests |-> st.latestRequests, ShardStatusList |-> st.ShardStatusList,
     LatestCfg |-> st.LatestCfg]

(***************************************************************************)
(* server.go:122-134, snapshot: the blob of the five encoded fields.       *)
(***************************************************************************)
encodeSnapshot(st, lastCommandIndex) ==
    [Kvmap |-> st.Kvmap, SnapshotIndex |-> lastCommandIndex,
     latestRequests |-> st.latestRequests, ShardStatusList |-> st.ShardStatusList,
     LatestCfg |-> st.LatestCfg]

\* a loadSnapshot that does not install the decoded duplicate table
loadSnapshotWithoutDuplicates(st, data) ==
    [st EXCEPT !.Kvmap = data.Kvmap, !.SnapshotIndex = data.SnapshotIndex,
               !.ShardStatusList = data.ShardStatusList,
               !.LatestCfg = data.LatestCfg]

(***************************************************************************)
(* server.go:147-160, loadSnapshot: the five fields decoded into kv.       *)
(***************************************************************************)
loadSnapshot(st, data) ==
    [st EXCEPT !.Kvmap = data.Kvmap, !.SnapshotIndex = data.SnapshotIndex,
               !.latestRequests = data.latestRequests,
               !.ShardStatusList = data.ShardStatusList,
               !.LatestCfg = data.LatestCfg]

\* server.go:136-138 and 422: maxraftstate is not -1 and GetRaftStateSize() reaches the
\* threshold; sizes are counted in log entries
snapshotNeeded(s, maxraftstate) ==
    /\ maxraftstate # -1
    /\ Len(rlog[gidOf(s)]) - snapshot[s].data.SnapshotIndex >= maxraftstate

(***************************************************************************)
(* server.go:422-425: the waiter registered for the index is removed from  *)
(* the map and the message is put in its channel.                          *)
(***************************************************************************)
notify(s, index) ==
    IF index \in DOMAIN requestHandlers[s]
    THEN /\ requestHandlers' = [requestHandlers EXCEPT ![s] = MapDel(@, index)]
         /\ calls' = [calls EXCEPT ![requestHandlers[s][index]].msg =
                         <<[CommandIndex |-> index,
                            CommandTerm |-> rlog[gidOf(s)][index].Term,
                            Key |-> rlog[gidOf(s)][index].Cmd.Key]>>]
    ELSE UNCHANGED <<calls, requestHandlers>>

(***************************************************************************)
(* server.go:416-427, the end of one iteration of the apply loop: the      *)
(* snapshot when the Raft state is large (server.go:136-145; doSnapshot    *)
(* stands for the size test), kept by Raft when it is newer than the one   *)
(* it holds (raft.go:171-194); then the next entry is the one to apply.    *)
(***************************************************************************)
finishApply(s, st, index, maxraftstate) ==
    LET doSnapshot == snapshotNeeded(s, maxraftstate)
        st1 == IF doSnapshot THEN [st EXCEPT !.SnapshotIndex = index] ELSE st
    IN  /\ kv' = [kv EXCEPT ![s] = st1]
        /\ snapshot' = IF doSnapshot /\ index > snapshot[s].data.SnapshotIndex
                       THEN [snapshot EXCEPT ![s] = [present |-> TRUE,
                                                     data |-> encodeSnapshot(st1, index)]]
                       ELSE snapshot
        /\ lastApplied' = [lastApplied EXCEPT ![s] = index]
        /\ sending' = [sending EXCEPT ![s] = NoSend]
        /\ notify(s, index)

\* the state of the apply loop once a step of applying the entry at index gave r
applyResult(s, r, index, maxraftstate) ==
    IF r.send.active
    THEN /\ kv' = [kv EXCEPT ![s] = r.st]
         /\ sending' = [sending EXCEPT ![s] = r.send]
         /\ UNCHANGED <<snapshot, lastApplied, calls, requestHandlers>>
    ELSE finishApply(s, r.st, index, maxraftstate)

(***************************************************************************)
(* server.go:338-433, periodCheckApplyMsg: the apply loop of replica s     *)
(* takes the next committed entry from the apply channel.                  *)
(***************************************************************************)
periodCheckApplyMsg(s, maxraftstate) ==
    LET g == gidOf(s)
        index == lastApplied[s] + 1
        cmd == rlog[g][index].Cmd
        st == kv[s]
        r == CASE cmd.Method \in {"Put", "Append"} ->
                    [st |-> applyClientOp(st, cmd), send |-> NoSend]
               [] cmd.Method = "ExportComplete" ->
                    [st |-> applyExportComplete(st, cmd), send |-> NoSend]
               [] cmd.Method = "ImportComplete" ->
                    [st |-> applyImportComplete(st, cmd), send |-> NoSend]
               [] cmd.Method = "ApplyConfig" ->
                    applyConfigOperation(st, cmd.BroadcastCfgVersion, g, IsLeader(s))
               [] OTHER -> [st |-> st, send |-> NoSend]
    IN  /\ ~mutex[s]
        /\ ~sending[s].active
        /\ index <= rcommit[g]
        /\ applyResult(s, r, index, maxraftstate)
        /\ exported' = IF cmd.Method = "ExportComplete"
                          /\ st.ShardStatusList[cmd.ShardNumber] = EXPORTING
                       THEN exported \cup {<<g, cmd.ShardNumber, cmd.BroadcastCfgVersion>>}
                       ELSE exported
        /\ UNCHANGED <<configs, rlog, rcommit, rterm, leader, issued, mutex, ckconfig>>

\* MigrateShard that does not test whether the replica is the leader
migrateShardReplyOfAnyReplica(d, shard) ==
    IF kv[d].ShardStatusList[shard] = AVAILABLE
    THEN [WrongLeader |-> FALSE, Err |-> ""]
    ELSE [WrongLeader |-> FALSE, Err |-> "OK"]

(***************************************************************************)
(* server.go:749-794, the reply of MigrateShard on replica d for a shard:  *)
(* wrong_leader on a replica that is not the leader; the zero reply        *)
(* (Err "") on a leader whose status for the shard is AVAILABLE; OK on a   *)
(* leader in any other status, after it started ImportComplete.            *)
(***************************************************************************)
migrateShardReply(d, shard) ==
    IF ~IsLeader(d)
    THEN [WrongLeader |-> TRUE, Err |-> ""]
    ELSE IF kv[d].ShardStatusList[shard] = AVAILABLE
         THEN [WrongLeader |-> FALSE, Err |-> ""]
         ELSE [WrongLeader |-> FALSE, Err |-> "OK"]

(***************************************************************************)
(* One call of the loop of sendMigrateShard (server.go:835-853) by the     *)
(* apply loop of s to server d of the destination group, and MigrateShard  *)
(* (server.go:749-794) on d: a leader whose status for the shard is not    *)
(* AVAILABLE starts ImportComplete (server.go:796-811) and replies OK      *)
(* without waiting for it to commit.  When a reply with OK and without     *)
(* wrong_leader arrives (ok: the reply is not lost) the sender starts      *)
(* ExportComplete on its own Raft, which appends only on a leader, and     *)
(* returns.  After any other reply, or none, the sender goes on calling.   *)
(***************************************************************************)
MigrateShard(s, d, ok) ==
    LET g == gidOf(s)
        dg == gidOf(d)
        args == sending[s]
        data == [k \in shardKeys(args.Kvmap, args.shard) |-> args.Kvmap[k]]
        importOp == [ZeroOp EXCEPT !.Method = "ImportComplete", !.ShardNumber = args.shard,
                                   !.BroadcastCfgVersion = args.cfg.Num, !.Kvmap = data,
                                   !.LatestRequests = args.Duplicate]
        exportOp == [ZeroOp EXCEPT !.Method = "ExportComplete", !.ShardNumber = args.shard,
                                   !.BroadcastCfgVersion = args.cfg.Num,
                                   !.Kvmap = args.Kvmap,
                                   !.LatestRequests = args.Duplicate]
        reply == migrateShardReply(d, args.shard)
        acked == ok /\ reply.WrongLeader = FALSE /\ reply.Err = "OK"
        lg1 == IF reply.Err = "OK" THEN StartIn(rlog, dg, importOp) ELSE rlog
    IN  /\ args.active /\ ~args.resume
        /\ dg = args.destGid
        /\ ~mutex[s] /\ ~mutex[d]
        /\ rlog' = IF acked /\ IsLeader(s) THEN StartIn(lg1, g, exportOp) ELSE lg1
        /\ sending' = IF acked THEN [sending EXCEPT ![s].resume = TRUE] ELSE sending
        /\ UNCHANGED <<configs, kv, rcommit, rterm, leader, lastApplied, snapshot,
                       issued, exported, handlerVars, ckconfig>>

(***************************************************************************)
(* server.go:564, the apply loop of s is back from sendMigrateShard: the   *)
(* loop of applyConfigOperation goes on with the next shard.               *)
(***************************************************************************)
resumeApplyConfig(s, maxraftstate) ==
    LET r == cfgLoop(kv[s], sending[s].cfg, gidOf(s), sending[s].shard + 1, IsLeader(s))
    IN  /\ ~mutex[s]
        /\ sending[s].active /\ sending[s].resume
        /\ applyResult(s, r, lastApplied[s] + 1, maxraftstate)
        /\ UNCHANGED <<configs, rlog, rcommit, rterm, leader, issued, exported, mutex, ckconfig>>

(***************************************************************************)
(* raft.go:1115-1159 and server.go:346-350: follower s, behind the         *)
(* snapshot of leader t, installs it; the apply pipeline delivers it and   *)
(* the apply loop loads it.                                                *)
(***************************************************************************)
InstallSnapshot(s, t) ==
    /\ gidOf(s) = gidOf(t) /\ s # t
    /\ IsLeader(t)
    /\ ~mutex[s]
    /\ ~sending[s].active
    /\ snapshot[t].present
    /\ snapshot[t].data.SnapshotIndex > lastApplied[s]
    /\ kv' = [kv EXCEPT ![s] = loadSnapshot(@, snapshot[t].data)]
    /\ snapshot' = [snapshot EXCEPT ![s] = snapshot[t]]
    /\ lastApplied' = [lastApplied EXCEPT ![s] = snapshot[t].data.SnapshotIndex]
    /\ UNCHANGED <<configs, rlog, rcommit, rterm, leader, sending, issued, exported,
                   handlerVars, ckconfig>>

(***************************************************************************)
(* A follower crashes and is started again (server.go:689-733): the        *)
(* persisted snapshot is loaded and the log after it is applied again.     *)
(***************************************************************************)
Restart(s) ==
    /\ ~IsLeader(s)
    /\ \A h \in DOMAIN calls : calls[h].server = s => calls[h].pc = "replied"
    /\ lastApplied[s] > snapshot[s].data.SnapshotIndex \/ sending[s].active
    /\ kv' = [kv EXCEPT ![s] = IF snapshot[s].present
                               THEN loadSnapshot(FreshKV, snapshot[s].data)
                               ELSE FreshKV]
    /\ lastApplied' = [lastApplied EXCEPT ![s] = snapshot[s].data.SnapshotIndex]
    /\ sending' = [sending EXCEPT ![s] = NoSend]
    /\ requestHandlers' = [requestHandlers EXCEPT ![s] = EmptyMap]
    /\ mutex' = [mutex EXCEPT ![s] = FALSE]
    /\ UNCHANGED <<configs, rlog, rcommit, rterm, leader, snapshot, issued, exported,
                   calls, ckconfig>>

\* first Join: every shard to group 1; then one shard moves to the other group
NextShards ==
    IF Len(configs) = 1 THEN {[sh \in Shards |-> 1]}
    ELSE {[configs[Len(configs)].Shards EXCEPT ![sh] = g] : sh \in Shards, g \in Gids}

(***************************************************************************)
(* Spec: two groups, the apply loop of one replica of each followed, no    *)
(* snapshots (maxraftstate = -1).                                          *)
(***************************************************************************)
MigServers == {<<1, 1>>, <<2, 1>>}
MigKeys == {"a"}
NoSnapshots == -1

HasRoom(g, n) == Len(rlog[g]) + n <= MaxLog

ShardNext ==
    \/ \E shards \in NextShards : Len(configs) - 1 < MaxCfg /\ Publish(shards)
            /\ UNCHANGED <<raftVars, persistVars, votesGranted, sideVars>>
    \/ \E g \in Gids, r \in Replicas, n \in 0..MaxLog :
            rterm[g] < MaxTerm /\ BecomeLeader(g, r, n)
            /\ UNCHANGED <<raftVars, persistVars, votesGranted, sideVars>>
    \/ \E g \in Gids : Commit(g)
            /\ UNCHANGED <<raftVars, persistVars, votesGranted, sideVars>>
    \/ \E s \in MigServers :
            HasRoom(gidOf(s), Len(configs)) /\ periodCheckShardMasterConfig(s)
            /\ UNCHANGED <<raftVars, persistVars, votesGranted, sideVars>>
    \/ \E s \in MigServers, c \in Clients, serial \in 1..MaxSerial, key \in MigKeys :
            HasRoom(gidOf(s), 1) /\ PutAppendStart(s, c, serial, key)
            /\ UNCHANGED <<raftVars, persistVars, votesGranted, sideVars>>
    \/ \E s \in MigServers : periodCheckApplyMsg(s, NoSnapshots)
            /\ UNCHANGED <<raftVars, persistVars, votesGranted, sideVars>>
    \/ \E s \in MigServers, d \in MigServers, ok \in BOOLEAN :
            HasRoom(gidOf(s), 1) /\ HasRoom(gidOf(d), 1) /\ MigrateShard(s, d, ok)
            /\ UNCHANGED <<raftVars, persistVars, votesGranted, sideVars>>
    \/ \E s \in MigServers : resumeApplyConfig(s, NoSnapshots)
            /\ UNCHANGED <<raftVars, persistVars, votesGranted, sideVars>>

vars == <<shardVars, handlerVars, ckconfig, raftVars, persistVars, votesGranted, sideVars>>

Spec == Init /\ [][ShardNext]_vars

(***************************************************************************)
(* Properties of shard ownership and migration, checked under Spec.        *)
(***************************************************************************)
\* the groups one of whose replicas marks shard sh AVAILABLE or EXPORTING
Holders(sh) ==
    {g \in Gids : \E s \in Servers :
        gidOf(s) = g /\ kv[s].ShardStatusList[sh] \in {AVAILABLE, EXPORTING}}

\* C5: single ownership: for every shard, at every instant, exactly one replica group
\* has the shard AVAILABLE or EXPORTING, also before a group applied its first
\* configuration and during a migration.
C5_SingleOwnership == \A sh \in Shards : Cardinality(Holders(sh)) = 1

\* the log of group g holds, among its first n entries, ImportComplete of shard sh for
\* configuration num
ImportCompleteIn(g, n, sh, num) ==
    \E j \in 1..n :
        /\ j <= Len(rlog[g])
        /\ rlog[g][j].Cmd.Method = "ImportComplete"
        /\ rlog[g][j].Cmd.ShardNumber = sh
        /\ rlog[g][j].Cmd.BroadcastCfgVersion = num

\* C6: no shard data is lost by migration: a replica of the source group applies
\* ExportComplete of a shard (deleting its keys) only when an ImportComplete carrying
\* the shard is committed in the destination group.
C6_ExportOnlyAfterImportCommitted ==
    \A e \in exported :
        LET dest == configs[e[3] + 1].Shards[e[2]]
        IN  ImportCompleteIn(dest, rcommit[dest], e[2], e[3])

\* a Put of a key of the shard was applied by the source before the migration, the
\* source deleted the shard, the destination elected a new leader, and neither a replica
\* nor a log entry of the destination holds the shard
C6_ShardLost ==
    \E e \in exported :
        LET src == e[1]
            dest == configs[e[3] + 1].Shards[e[2]]
        IN  /\ rterm[dest] > 1
            /\ ~ImportCompleteIn(dest, Len(rlog[dest]), e[2], e[3])
            /\ \A s \in Servers : shardKeys(kv[s].Kvmap, e[2]) = {}
            /\ \E j, m \in 1..rcommit[src] :
                  /\ j < m
                  /\ rlog[src][j].Cmd.Method = "Put"
                  /\ key2shard(rlog[src][j].Cmd.Key) = e[2]
                  /\ rlog[src][m].Cmd.Method = "ApplyConfig"
                  /\ rlog[src][m].Cmd.BroadcastCfgVersion = e[3]

\* replica s applies in this step the next entry of its log, of the given method
Applies(s, method) ==
    /\ lastApplied'[s] = lastApplied[s] + 1
    /\ rlog[gidOf(s)][lastApplied'[s]].Cmd.Method = method

\* C7: the duplicate table travels with the shard: whenever a replica sets a shard
\* AVAILABLE by applying ImportComplete, its duplicate table of the shard has an entry,
\* at least as recent, for every (client -> serial) entry the command carries.
C7_DuplicateTableTravels ==
    [][\A s \in Servers :
          Applies(s, "ImportComplete") =>
              LET cmd == rlog[gidOf(s)][lastApplied'[s]].Cmd
                  dup == kv'[s].latestRequests[cmd.ShardNumber]
              IN  kv'[s].ShardStatusList[cmd.ShardNumber] = AVAILABLE =>
                      \A c \in DOMAIN cmd.LatestRequests :
                          c \in DOMAIN dup /\ dup[c] >= cmd.LatestRequests[c]]_vars

\* C10: in every state of every replica, each key of the KV map belongs to a shard the
\* replica marks AVAILABLE or EXPORTING.
C10_KeysOnlyInOwnedShards ==
    \A s \in Servers : \A k \in DOMAIN kv[s].Kvmap :
        kv[s].ShardStatusList[key2shard(k)] \in {AVAILABLE, EXPORTING}

(***************************************************************************)
(* SpecReplica: both replicas of group 1 and one of group 2, snapshots     *)
(* once the log has RepMaxRaftState entries after the last snapshot,       *)
(* InstallSnapshot from the leader, restarts of followers.  The first      *)
(* configuration gives every shard to one group, either of them; the next  *)
(* moves shard 0, the shard of the key written, to the other group.        *)
(***************************************************************************)
RepNextShards ==
    IF Len(configs) = 1 THEN {[sh \in Shards |-> g] : g \in Gids}
    ELSE {[configs[Len(configs)].Shards EXCEPT ![0] = g] : g \in Gids}

RepHasRoom(g, n) == Len(rlog[g]) + n <= RepMaxLog

ReplicaNext ==
    \/ \E shards \in RepNextShards : Len(configs) - 1 < RepMaxCfg /\ Publish(shards)
            /\ UNCHANGED <<raftVars, persistVars, votesGranted, sideVars>>
    \/ \E g \in Gids, r \in Replicas, n \in 0..RepMaxLog :
            rterm[g] < RepMaxTerm /\ BecomeLeader(g, r, n)
            /\ UNCHANGED <<raftVars, persistVars, votesGranted, sideVars>>
    \/ \E g \in Gids : Commit(g)
            /\ UNCHANGED <<raftVars, persistVars, votesGranted, sideVars>>
    \/ \E s \in Servers :
            RepHasRoom(gidOf(s), Len(configs)) /\ periodCheckShardMasterConfig(s)
            /\ UNCHANGED <<raftVars, persistVars, votesGranted, sideVars>>
    \/ \E s \in Servers, c \in Clients, serial \in 1..RepMaxSerial, key \in MigKeys :
            RepHasRoom(gidOf(s), 1) /\ PutAppendStart(s, c, serial, key)
            /\ UNCHANGED <<raftVars, persistVars, votesGranted, sideVars>>
    \/ \E s \in Servers : periodCheckApplyMsg(s, RepMaxRaftState)
            /\ UNCHANGED <<raftVars, persistVars, votesGranted, sideVars>>
    \/ \E s \in Servers, d \in Servers, ok \in BOOLEAN :
            RepHasRoom(gidOf(s), 1) /\ RepHasRoom(gidOf(d), 1) /\ MigrateShard(s, d, ok)
            /\ UNCHANGED <<raftVars, persistVars, votesGranted, sideVars>>
    \/ \E s \in Servers : resumeApplyConfig(s, RepMaxRaftState)
            /\ UNCHANGED <<raftVars, persistVars, votesGranted, sideVars>>
    \/ \E s \in Servers, t \in Servers : InstallSnapshot(s, t)
            /\ UNCHANGED <<raftVars, persistVars, votesGranted, sideVars>>
    \/ \E s \in Servers : Restart(s)
            /\ UNCHANGED <<raftVars, persistVars, votesGranted, sideVars>>

SpecReplica == Init /\ [][ReplicaNext]_vars

\* replicas s and t of one group have applied the same prefix of the log and neither is
\* inside the application of an entry
SamePrefix(s, t) ==
    /\ gidOf(s) = gidOf(t)
    /\ lastApplied[s] = lastApplied[t]
    /\ ~sending[s].active /\ ~sending[t].active

DupServers == {<<1, 1>>}
DupGids == {1}

DupHasRoom(g, n) == Len(rlog[g]) + n <= DupMaxLog

DupNext ==
    \/ \E shards \in NextShards : Len(configs) - 1 < DupMaxCfg /\ Publish(shards)
            /\ UNCHANGED <<raftVars, persistVars, votesGranted, sideVars>>
    \/ \E g \in DupGids, r \in Replicas, n \in 0..DupMaxLog :
            rterm[g] < DupMaxTerm /\ BecomeLeader(g, r, n)
            /\ UNCHANGED <<raftVars, persistVars, votesGranted, sideVars>>
    \/ \E g \in DupGids : Commit(g)
            /\ UNCHANGED <<raftVars, persistVars, votesGranted, sideVars>>
    \/ \E s \in DupServers :
            DupHasRoom(gidOf(s), Len(configs)) /\ periodCheckShardMasterConfig(s)
            /\ UNCHANGED <<raftVars, persistVars, votesGranted, sideVars>>
    \/ \E s \in DupServers, c \in Clients, serial \in 1..DupMaxSerial, key \in Keys :
            DupHasRoom(gidOf(s), 1) /\ PutAppendStart(s, c, serial, key)
            /\ UNCHANGED <<raftVars, persistVars, votesGranted, sideVars>>
    \/ \E s \in DupServers : periodCheckApplyMsg(s, NoSnapshots)
            /\ UNCHANGED <<raftVars, persistVars, votesGranted, sideVars>>

SpecDup == Init /\ [][DupNext]_vars

\* the Put/Append of the log entry at index i was applied before: the same client and
\* serial number are in an entry before i
AppliedBefore(g, i) ==
    \E j \in 1..(i - 1) :
        /\ rlog[g][j].Cmd.Method \in {"Put", "Append"}
        /\ rlog[g][j].Cmd.ClientId = rlog[g][i].Cmd.ClientId
        /\ rlog[g][j].Cmd.SerialNum = rlog[g][i].Cmd.SerialNum

\* C2: at-most-once application: applying a Put/Append whose (client, serial) the group
\* applied before, the client's latest serial or an earlier one, leaves the KV map
\* unchanged.
C2_AtMostOnce ==
    [][\A s \in Servers :
          (Applies(s, "Put") \/ Applies(s, "Append")) /\ AppliedBefore(gidOf(s), lastApplied'[s])
              => kv'[s].Kvmap = kv[s].Kvmap]_vars

(***************************************************************************)
(* The Get and PutAppend handlers, server.go:218-313, and await,           *)
(* server.go:167-199.  A call is a handler that called Start: the Op, the  *)
(* index and term Start returned, where the handler is (pc), the message   *)
(* in its channel (msg, empty or one message) and the reply.               *)
(*   pc = "await"   : Start returned, await not yet entered                *)
(*   pc = "waiting" : in the select of await                               *)
(*   pc = "locking" : Get, await returned true, at kv.Lock (server.go:252) *)
(*   pc = "replied" : the handler returned                                 *)
(***************************************************************************)
NewCall(s, op, index, startTerm) ==
    [server |-> s, op |-> op, index |-> index, term |-> startTerm, pc |-> "await",
     msg |-> <<>>, WrongLeader |-> TRUE, Err |-> "", Value |-> <<>>]

\* the client received for its operation serial a reply without wrong_leader
Completed(c, serial) ==
    \E h \in DOMAIN calls :
        /\ calls[h].op.ClientId = c /\ calls[h].op.SerialNum = serial
        /\ calls[h].pc = "replied" /\ ~calls[h].WrongLeader

\* the operations of the client of SpecHandler: a Put, then a Get
HMethodOf(serial) == IF serial = 1 THEN "Put" ELSE "Get"

(***************************************************************************)
(* server.go:218-249 (Get) and 270-296 (PutAppend): the handler up to the  *)
(* return of Start.  A replica that is not the leader returns at once with *)
(* wrong_leader; a leader that does not own the key's shard returns        *)
(* ErrWrongGroup, wrong_leader as initialised; otherwise the Op is         *)
(* started.  The request is the client's next operation, issued when the   *)
(* reply to the previous one arrived, or one still without reply, sent     *)
(* again.                                                                  *)
(***************************************************************************)
returnedCall(s, op, err) ==
    [NewCall(s, op, 0, 0) EXCEPT !.pc = "replied", !.WrongLeader = TRUE, !.Err = err]

startCall(s, c, serial, key, method) ==
    LET g == gidOf(s)
        fresh == serial = Len(issued[c]) + 1
        op == IF fresh
              THEN [ZeroOp EXCEPT !.Method = method, !.Key = key,
                                  !.Value = IF method = "Get" THEN <<>> ELSE <<serial>>,
                                  !.ClientId = c, !.SerialNum = serial]
              ELSE issued[c][serial]
    IN  /\ serial \in 1..(Len(issued[c]) + 1)
        /\ fresh => (serial = 1 \/ Completed(c, serial - 1))
        /\ ~fresh => (key = op.Key /\ method = op.Method)
        /\ ~Completed(c, serial)
        /\ Routed(c, g, op.Key)
        /\ issued' = IF fresh THEN [issued EXCEPT ![c] = Append(@, op)] ELSE issued
        /\ IF ~IsLeader(s)
           THEN /\ calls' = Append(calls, returnedCall(s, op, ""))
                /\ UNCHANGED rlog
           ELSE /\ ~mutex[s]
                /\ IF ~checkIfOwnsKey(kv[s], op.Key)
                   THEN /\ calls' = Append(calls, returnedCall(s, op, "ErrWrongGroup"))
                        /\ UNCHANGED rlog
                   ELSE /\ rlog' = StartIn(rlog, g, op)
                        /\ calls' = Append(calls, NewCall(s, op, Len(rlog[g]) + 1, rterm[g]))
        /\ UNCHANGED <<configs, kv, rcommit, rterm, leader, lastApplied, snapshot,
                       sending, exported, requestHandlers, mutex>>

Get(s, c, serial, key) == startCall(s, c, serial, key, "Get")

PutAppend(s, c, serial, key, method) ==
    /\ method \in {"Put", "Append"}
    /\ startCall(s, c, serial, key, method)

(***************************************************************************)
(* The handler once await returned success: PutAppend replies              *)
(* (server.go:300-311); Get replies wrong_leader on failure and otherwise  *)
(* goes on to lock kv (server.go:245-252).                                 *)
(***************************************************************************)
afterAwait(call, success) ==
    IF ~success
    THEN [call EXCEPT !.pc = "replied", !.WrongLeader = TRUE]
    ELSE IF call.op.Method = "Get"
         THEN [call EXCEPT !.pc = "locking"]
         ELSE [call EXCEPT !.pc = "replied", !.WrongLeader = FALSE, !.Err = "OK"]

(***************************************************************************)
(* server.go:167-177, the start of await: with no waiter registered for    *)
(* the index the call registers its channel and unlocks; with one          *)
(* registered await returns true and the mutex stays locked.               *)
(***************************************************************************)
awaitRegister(h) ==
    LET s == calls[h].server
    IN  /\ calls[h].pc = "await"
        /\ ~mutex[s]
        /\ IF calls[h].index \notin DOMAIN requestHandlers[s]
           THEN /\ requestHandlers' =
                       [requestHandlers EXCEPT ![s] = MapPut(@, calls[h].index, h)]
                /\ calls' = [calls EXCEPT ![h].pc = "waiting"]
                /\ UNCHANGED mutex
           ELSE /\ mutex' = [mutex EXCEPT ![s] = TRUE]
                /\ calls' = [calls EXCEPT ![h] = afterAwait(@, TRUE)]
                /\ UNCHANGED requestHandlers
        /\ UNCHANGED <<shardVars, ckconfig>>

(***************************************************************************)
(* server.go:179-193: the message arrives; success when index and term     *)
(* are those of Start and the replica owns the shard of the message's key. *)
(***************************************************************************)
awaitReceive(h) ==
    LET s == calls[h].server
        message == calls[h].msg[1]
        owns == checkIfOwnsKey(kv[s], message.Key)
        success == /\ calls[h].index = message.CommandIndex
                   /\ calls[h].term = message.CommandTerm
                   /\ owns
    IN  /\ calls[h].pc = "waiting"
        /\ calls[h].msg # <<>>
        /\ ~mutex[s]
        /\ calls' = [calls EXCEPT ![h] = afterAwait(@, success)]
        /\ UNCHANGED <<shardVars, requestHandlers, mutex, ckconfig>>

\* server.go:194-196: 800 ms passed
awaitTimeout(h) ==
    /\ calls[h].pc = "waiting"
    /\ calls' = [calls EXCEPT ![h] = afterAwait(@, FALSE)]
    /\ UNCHANGED <<shardVars, requestHandlers, mutex, ckconfig>>

(***************************************************************************)
(* server.go:252-265, Get after a successful await: the value is read      *)
(* from the map under the lock.                                            *)
(***************************************************************************)
getReply(h) ==
    LET s == calls[h].server
        key == calls[h].op.Key
    IN  /\ calls[h].pc = "locking"
        /\ ~mutex[s]
        /\ calls' = [calls EXCEPT ![h] =
                        IF key \in DOMAIN kv[s].Kvmap
                        THEN [@ EXCEPT !.pc = "replied", !.WrongLeader = FALSE,
                                       !.Err = "OK", !.Value = kv[s].Kvmap[key]]
                        ELSE [@ EXCEPT !.pc = "replied", !.WrongLeader = FALSE,
                                       !.Err = "ErrNoKey"]]
        /\ UNCHANGED <<shardVars, requestHandlers, mutex, ckconfig>>

(***************************************************************************)
(* SpecHandler: one replica of each group followed; group 1 elects leaders  *)
(* again, group 2 once.  The configurations are published and route the    *)
(* client, no replica polls.  The client's requests reach leaders that own *)
(* the key's shard.                                                        *)
(***************************************************************************)
HHasRoom(g, n) == Len(rlog[g]) + n <= HMaxLog
HTermsOf(g) == IF g = 1 THEN HMaxTerm ELSE HMaxTerm2

HandlerNext ==
    \/ \E shards \in NextShards : Len(configs) - 1 < HMaxCfg /\ Publish(shards)
            /\ UNCHANGED <<raftVars, persistVars, votesGranted, sideVars>>
    \/ \E g \in Gids, r \in Replicas, n \in 0..HMaxLog :
            rterm[g] < HTermsOf(g) /\ BecomeLeader(g, r, n)
            /\ UNCHANGED <<raftVars, persistVars, votesGranted, sideVars>>
    \/ \E g \in Gids : Commit(g)
            /\ UNCHANGED <<raftVars, persistVars, votesGranted, sideVars>>
    \/ \E s \in MigServers, c \in Clients, serial \in 1..2, key \in MigKeys :
            /\ HHasRoom(gidOf(s), 1) /\ Len(calls) < HMaxCalls
            /\ IsLeader(s) /\ checkIfOwnsKey(kv[s], key)
            /\ HMethodOf(serial) = "Get"
            /\ Get(s, c, serial, key)
            /\ UNCHANGED <<raftVars, persistVars, votesGranted, sideVars>>
    \/ \E s \in MigServers, c \in Clients, serial \in 1..2, key \in MigKeys :
            /\ HHasRoom(gidOf(s), 1) /\ Len(calls) < HMaxCalls
            /\ IsLeader(s) /\ checkIfOwnsKey(kv[s], key)
            /\ PutAppend(s, c, serial, key, HMethodOf(serial))
            /\ UNCHANGED <<raftVars, persistVars, votesGranted, sideVars>>
    \/ \E h \in DOMAIN calls : awaitRegister(h)
            /\ UNCHANGED <<raftVars, persistVars, votesGranted, sideVars>>
    \/ \E h \in DOMAIN calls : awaitReceive(h)
            /\ UNCHANGED <<raftVars, persistVars, votesGranted, sideVars>>
    \/ \E h \in DOMAIN calls : awaitTimeout(h)
            /\ UNCHANGED <<raftVars, persistVars, votesGranted, sideVars>>
    \/ \E h \in DOMAIN calls : getReply(h)
            /\ UNCHANGED <<raftVars, persistVars, votesGranted, sideVars>>
    \/ \E s \in MigServers : periodCheckApplyMsg(s, NoSnapshots)
            /\ UNCHANGED <<raftVars, persistVars, votesGranted, sideVars>>

SpecHandler == Init /\ [][HandlerNext]_vars

\* C8: a handler replies wrong_leader = false only if the apply loop delivered to it
\* the log entry with exactly the index and term that Start returned; in every other
\* case, a waiter already registered for the index included, wrong_leader is true.
C8_ReplyOnlyForDeliveredEntry ==
    \A h \in DOMAIN calls :
        (calls[h].pc = "replied" /\ ~calls[h].WrongLeader) =>
            /\ calls[h].msg # <<>>
            /\ calls[h].msg[1].CommandIndex = calls[h].index
            /\ calls[h].msg[1].CommandTerm = calls[h].term

\* the value of key after the first n operations of ops, executed in order
RECURSIVE valueAfter(_, _, _)
valueAfter(ops, key, n) ==
    IF n = 0 THEN [present |-> FALSE, value |-> <<>>]
    ELSE LET before == valueAfter(ops, key, n - 1)
             op == ops[n]
         IN  IF op.Key # key THEN before
             ELSE IF op.Method = "Put" THEN [present |-> TRUE, value |-> op.Value]
             ELSE IF op.Method = "Append"
                  THEN [present |-> TRUE, value |-> before.value \o op.Value]
             ELSE before

\* C1: linearizability for a client whose operations follow one another: a Get that
\* replies OK or ErrNoKey returns the value produced by the writes completed before it
\* was invoked, never ErrNoKey or an older value for a key written before.
C1_GetReturnsLastCompletedWrite ==
    \A h \in DOMAIN calls :
        (calls[h].pc = "replied" /\ ~calls[h].WrongLeader /\ calls[h].op.Method = "Get") =>
            LET expected == valueAfter(issued[calls[h].op.ClientId], calls[h].op.Key,
                                       calls[h].op.SerialNum - 1)
            IN  IF expected.present
                THEN calls[h].Err = "OK" /\ calls[h].Value = expected.value
                ELSE calls[h].Err = "ErrNoKey"


(***************************************************************************)
(* The Raft peers of one replica group (raft.go).  A peer holds term,      *)
(* state, votedFor, its log and commitIndex; a leader holds nextIndex and  *)
(* matchIndex as well.  RPCs are records in sets: a call is in flight from *)
(* the moment it is sent until its handler runs, and may stay there for    *)
(* ever (labrpc loses and reorders messages).  No snapshot is taken in     *)
(* this part, so lastSnapshotIndex and lastSnapshotTerm stay 0.            *)
(***************************************************************************)

\* getLastLogEntry: <<index, term>> of the last entry, or of the snapshot.
getLastLogEntry(p) ==
    IF Len(log[p]) > 0
    THEN <<log[p][Len(log[p])].Index, log[p][Len(log[p])].Term>>
    ELSE <<lastSnapshotIndex, lastSnapshotTerm>>

getLastLogIndex(p) == getLastLogEntry(p)[1]

checkIfLogUpdateToDate(p, lastLogIndex, lastLogTerm) ==
    LET lastI == getLastLogEntry(p)[1]
        lastT == getLastLogEntry(p)[2]
    IN  IF lastT = lastLogTerm THEN lastI <= lastLogIndex ELSE lastT < lastLogTerm

(***************************************************************************)
(* startElectionProcess finds the peer not a leader and without a recent   *)
(* heartbeat, and beginElection runs: the peer becomes a candidate of the  *)
(* next term, votes for itself, starts a vote count of 1 and sends         *)
(* RequestVote to every other peer.  The count is a local variable of this *)
(* call of beginElection, so it is kept per call (eid).                    *)
(***************************************************************************)
beginElection(p) ==
    /\ state[p] # Leader
    /\ state' = [state EXCEPT ![p] = Candidate]
    /\ term' = [term EXCEPT ![p] = @ + 1]
    /\ votedFor' = [votedFor EXCEPT ![p] = p]
    /\ voteCount' = [voteCount EXCEPT ![p] = Append(@, 1)]
    /\ rvRequests' = rvRequests \cup
            { [from |-> p, to |-> q, eid |-> Len(voteCount[p]) + 1,
               Term |-> term[p] + 1,
               LastLogIndex |-> getLastLogEntry(p)[1],
               LastLogTerm |-> getLastLogEntry(p)[2]] : q \in Peers \ {p} }
    /\ UNCHANGED <<log, commitIndex, nextIndex, matchIndex, pendingLeader,
                   rvReplies, aeRequests, aeReplies>>

(***************************************************************************)
(* The RequestVote handler at peer m.to.  reply.Term is the term before    *)
(* the handler adopts the candidate's.  The reply starts the goroutine of  *)
(* beginElection that handles it (pc "arrived").                           *)
(***************************************************************************)
RequestVote(m) ==
    LET p == m.to
        updateToDate == checkIfLogUpdateToDate(p, m.LastLogIndex, m.LastLogTerm)
        newer == m.Term > term[p]
        termNow == IF newer THEN m.Term ELSE term[p]
        stateNow == IF newer THEN Follower ELSE state[p]
        votedNow == IF newer THEN NoVote ELSE votedFor[p]
        granted == /\ ~(m.Term < termNow)
                   /\ (votedNow = NoVote \/ votedNow = m.from)
                   /\ updateToDate
    IN  /\ m \in rvRequests
        /\ rvRequests' = rvRequests \ {m}
        /\ term' = [term EXCEPT ![p] = termNow]
        /\ state' = [state EXCEPT ![p] = stateNow]
        /\ votedFor' = [votedFor EXCEPT ![p] = IF granted THEN m.from ELSE votedNow]
        /\ rvReplies' = rvReplies \cup
                { [from |-> p, to |-> m.from, eid |-> m.eid, cachedTerm |-> m.Term,
                   Term |-> term[p], VoteGranted |-> granted, pc |-> "arrived",
                   cachedCurTerm |-> 0, cachedCurState |-> Follower, curVote |-> 0] }
        /\ UNCHANGED <<log, commitIndex, nextIndex, matchIndex, voteCount, pendingLeader,
                       aeRequests, aeReplies>>

(***************************************************************************)
(* The goroutine of beginElection that handles one reply, in the three     *)
(* critical sections of the code.  First it reads rf.term and rf.state     *)
(* under the lock and releases the lock.                                   *)
(***************************************************************************)
voteReplyCache(m) ==
    /\ m \in rvReplies
    /\ m.pc = "arrived"
    /\ rvReplies' = (rvReplies \ {m}) \cup
            { [m EXCEPT !.pc = "cached", !.cachedCurTerm = term[m.to],
                        !.cachedCurState = state[m.to]] }
    /\ UNCHANGED <<term, state, votedFor, log, commitIndex, nextIndex, matchIndex,
                   voteCount, pendingLeader, rvRequests, aeRequests, aeReplies>>

(***************************************************************************)
(* Then it decides on the values it read: a reply of a later term makes    *)
(* the peer a follower of that term; a granted vote of the election's term *)
(* is counted; anything else ends the goroutine.                           *)
(***************************************************************************)
voteReplyCount(m) ==
    LET p == m.to IN
    /\ m \in rvReplies
    /\ m.pc = "cached"
    /\ IF m.Term > m.cachedCurTerm
       THEN /\ term' = [term EXCEPT ![p] = m.Term]
            /\ state' = [state EXCEPT ![p] = Follower]
            /\ votedFor' = [votedFor EXCEPT ![p] = NoVote]
            /\ rvReplies' = rvReplies \ {m}
            /\ UNCHANGED voteCount
       ELSE IF m.cachedTerm = m.cachedCurTerm /\ m.VoteGranted
       THEN /\ voteCount' = [voteCount EXCEPT ![p][m.eid] = @ + 1]
            /\ rvReplies' = (rvReplies \ {m}) \cup
                    { [m EXCEPT !.pc = "counted", !.curVote = voteCount[p][m.eid] + 1] }
            /\ UNCHANGED <<term, state, votedFor>>
       ELSE /\ rvReplies' = rvReplies \ {m}
            /\ UNCHANGED <<term, state, votedFor, voteCount>>
    /\ UNCHANGED <<log, commitIndex, nextIndex, matchIndex, pendingLeader,
                   rvRequests, aeRequests, aeReplies>>

(***************************************************************************)
(* Last, with more than half of the votes and the state it read being      *)
(* Candidate, it sets rf.state to Leader and starts becomeLeader.          *)
(***************************************************************************)
voteReplyLead(m) ==
    LET p == m.to IN
    /\ m \in rvReplies
    /\ m.pc = "counted"
    /\ rvReplies' = rvReplies \ {m}
    /\ IF m.curVote > halfOfPeers /\ m.cachedCurState = Candidate
       THEN /\ state' = [state EXCEPT ![p] = Leader]
            /\ pendingLeader' = [pendingLeader EXCEPT ![p] = TRUE]
       ELSE UNCHANGED <<state, pendingLeader>>
    /\ UNCHANGED <<term, votedFor, log, commitIndex, nextIndex, matchIndex, voteCount,
                   rvRequests, aeRequests, aeReplies>>

(***************************************************************************)
(* becomeLeader, started by the goroutine above: sets rf.state to Leader   *)
(* whatever it is now, and resets nextIndex and matchIndex.                *)
(***************************************************************************)
becomeLeader(p) ==
    /\ pendingLeader[p]
    /\ pendingLeader' = [pendingLeader EXCEPT ![p] = FALSE]
    /\ state' = [state EXCEPT ![p] = Leader]
    /\ nextIndex' = [nextIndex EXCEPT
            ![p] = [q \in Peers |-> IF q = p THEN 0 ELSE getLastLogIndex(p) + 1]]
    /\ matchIndex' = [matchIndex EXCEPT ![p] = [q \in Peers |-> 0]]
    /\ UNCHANGED <<term, votedFor, log, commitIndex, voteCount,
                   rvRequests, rvReplies, aeRequests, aeReplies>>

(***************************************************************************)
(* SpecElection: three peers with empty logs; the election timer of two   *)
(* of them fires, each calls beginElection up to ElMaxElections times, up  *)
(* to term ElMaxTerm.                                                      *)
(***************************************************************************)
\* the peers whose election timer fires
ElCandidates == {1, 2}

ElectionNext ==
    \/ \E p \in ElCandidates :
            /\ term[p] < ElMaxTerm
            /\ Len(voteCount[p]) < ElMaxElections
            /\ beginElection(p)
            /\ UNCHANGED <<shardVars, handlerVars, ckconfig, persistVars, votesGranted, sideVars>>
    \/ \E m \in rvRequests : RequestVote(m)
            /\ UNCHANGED <<shardVars, handlerVars, ckconfig, persistVars, votesGranted, sideVars>>
    \/ \E m \in rvReplies : voteReplyCache(m)
            /\ UNCHANGED <<shardVars, handlerVars, ckconfig, persistVars, votesGranted, sideVars>>
    \/ \E m \in rvReplies : voteReplyCount(m)
            /\ UNCHANGED <<shardVars, handlerVars, ckconfig, persistVars, votesGranted, sideVars>>
    \/ \E m \in rvReplies : voteReplyLead(m)
            /\ UNCHANGED <<shardVars, handlerVars, ckconfig, persistVars, votesGranted, sideVars>>
    \/ \E p \in Peers : becomeLeader(p)
            /\ UNCHANGED <<shardVars, handlerVars, ckconfig, persistVars, votesGranted, sideVars>>

SpecElection == Init /\ [][ElectionNext]_vars

\* C4: in no state are two peers leaders of the same term.
C4_ElectionSafety ==
    \A p \in Peers, q \in Peers :
        (p # q /\ state[p] = Leader /\ state[q] = Leader) => term[p] # term[q]


(***************************************************************************)
(* Log replication (raft.go).  Start appends a command to the leader's     *)
(* log.                                                                    *)
(***************************************************************************)
Start(p, cmd) ==
    /\ state[p] = Leader
    /\ log' = [log EXCEPT ![p] = Append(@,
            [Cmd |-> cmd, Term |-> term[p],
             Index |-> IF Len(log[p]) > 0 THEN log[p][Len(log[p])].Index + 1
                       ELSE Max(1, lastSnapshotIndex + 1)])]
    /\ UNCHANGED <<term, state, votedFor, commitIndex, nextIndex, matchIndex, voteCount,
                   pendingLeader, rvRequests, rvReplies, aeRequests, aeReplies>>

(***************************************************************************)
(* sendAppendEntries, up to the RPC: the leader builds the arguments for   *)
(* peer q from nextIndex[q], all entries from nextIndex[q] on, or none     *)
(* (a heartbeat) when nextIndex[q] is past the end of its log.             *)
(***************************************************************************)
appendEntriesArgs(p, q) ==
    LET lastLogIndex == getLastLogIndex(p)
        at == { i \in 1..Len(log[p]) : log[p][i].Index = nextIndex[p][q] }
        hasNext == lastLogIndex > 0 /\ lastLogIndex >= nextIndex[p][q] /\ at # {}
        i == CHOOSE j \in at : \A k \in at : j <= k
        heartbeatPrev == IF lastLogIndex > 0 /\ lastLogIndex >= nextIndex[p][q]
                         THEN <<0, 0>>
                         ELSE IF Len(log[p]) > 0 THEN getLastLogEntry(p)
                         ELSE <<lastSnapshotIndex, lastSnapshotTerm>>
        prev == IF hasNext
                THEN IF i > 1 THEN <<log[p][i - 1].Index, log[p][i - 1].Term>>
                     ELSE <<lastSnapshotIndex, lastSnapshotTerm>>
                ELSE heartbeatPrev
    IN  [Term |-> term[p], LeaderId |-> p, to |-> q,
         PreLogIndex |-> prev[1], PreLogTerm |-> prev[2],
         Entries |-> IF hasNext THEN SubSeq(log[p], i, Len(log[p])) ELSE <<>>,
         LeaderCommit |-> commitIndex[p]]

sendAppendEntries(p, q) ==
    /\ state[p] = Leader
    /\ ~pendingLeader[p]
    /\ q # p
    /\ nextIndex[p][q] > lastSnapshotIndex
    /\ aeRequests' = aeRequests \cup {appendEntriesArgs(p, q)}
    /\ UNCHANGED <<term, state, votedFor, log, commitIndex, nextIndex, matchIndex,
                   voteCount, pendingLeader, rvRequests, rvReplies, aeReplies>>

(***************************************************************************)
(* The AppendEntries handler.  consistentPrefix is the number of entries   *)
(* of the arguments that the loop finds in the log after the previous      *)
(* entry; the loop cuts the log at the first entry that is not in the      *)
(* arguments, be it different or beyond their end.                         *)
(***************************************************************************)
RECURSIVE consistentPrefix(_, _, _, _)
consistentPrefix(l, pos, entries, k) ==
    IF /\ pos + k + 1 <= Len(l)
       /\ k + 1 <= Len(entries)
       /\ l[pos + k + 1].Term = entries[k + 1].Term
       /\ l[pos + k + 1].Index = entries[k + 1].Index
    THEN consistentPrefix(l, pos, entries, k + 1)
    ELSE k

\* the position in l of the entry with the index and term given, 0 when there is none
preLogIndexInCurLogPos(l, preLogIndex, preLogTerm) ==
    LET at == { i \in 1..Len(l) : l[i].Index = preLogIndex /\ l[i].Term = preLogTerm }
    IN  IF at = {} THEN 0 ELSE CHOOSE j \in at : \A k \in at : j <= k

\* reply.ConflictingLogIndex of a refused call
conflictingLogIndex(l, preLogIndex) ==
    LET other == { i \in 1..Len(l) : l[i].Index = preLogIndex }
        conflictTerm == IF other # {}
                        THEN l[CHOOSE j \in other : \A k \in other : j >= k].Term
                        ELSE IF Len(l) > 0 THEN l[Len(l)].Term ELSE 0
        ofTerm == { i \in 1..Len(l) : l[i].Term = conflictTerm }
    IN  IF ofTerm = {} THEN 0 ELSE l[CHOOSE j \in ofTerm : \A k \in ofTerm : j <= k].Index

AppendEntries(m) ==
    LET p == m.to
        pos == preLogIndexInCurLogPos(log[p], m.PreLogIndex, m.PreLogTerm)
        PrevIsBeginningOfLog == m.PreLogIndex = 0 /\ m.PreLogTerm = 0
        PrevMatchedSnapshotIndexAndTerm ==
            m.PreLogIndex = lastSnapshotIndex /\ m.PreLogTerm = lastSnapshotTerm
        accepted == pos > 0 \/ PrevIsBeginningOfLog \/ PrevMatchedSnapshotIndexAndTerm
        k == consistentPrefix(log[p], pos, m.Entries, 0)
        newLog == SubSeq(log[p], 1, pos + k) \o SubSeq(m.Entries, k + 1, Len(m.Entries))
        latestLogIndex == IF Len(newLog) > 0 THEN newLog[Len(newLog)].Index
                          ELSE lastSnapshotIndex
        reply(success, conflict) ==
            [from |-> p, to |-> m.LeaderId, args |-> m, Term |-> term[p],
             Success |-> success, ConflictingLogIndex |-> conflict]
    IN  /\ m \in aeRequests
        /\ aeRequests' = aeRequests \ {m}
        /\ IF m.Term < term[p]
           THEN /\ aeReplies' = aeReplies \cup {reply(FALSE, 0)}
                /\ UNCHANGED <<term, state, votedFor, log, commitIndex>>
           ELSE /\ state' = [state EXCEPT ![p] = Follower]
                /\ term' = [term EXCEPT ![p] = m.Term]
                /\ votedFor' = [votedFor EXCEPT ![p] = m.LeaderId]
                /\ IF accepted
                   THEN /\ log' = [log EXCEPT ![p] = newLog]
                        /\ commitIndex' = [commitIndex EXCEPT ![p] =
                                IF m.LeaderCommit > @
                                THEN Min(m.LeaderCommit, latestLogIndex) ELSE @]
                        /\ aeReplies' = aeReplies \cup {reply(TRUE, 0)}
                   ELSE /\ aeReplies' = aeReplies \cup
                                {reply(FALSE, conflictingLogIndex(log[p], m.PreLogIndex))}
                        /\ UNCHANGED <<log, commitIndex>>
        /\ UNCHANGED <<nextIndex, matchIndex, voteCount, pendingLeader,
                       rvRequests, rvReplies>>

\* updateCommitIndex without the test of the entry's term
updateCommitIndexOfAnyTerm(p, match) ==
    LET held(i) == /\ log[p][i].Index > commitIndex[p]
                   /\ 1 + Cardinality({ q \in Peers \ {p} : match[q] >= log[p][i].Index })
                          > halfOfPeers
        majority == { i \in 1..Len(log[p]) : held(i) }
    IN  IF majority = {} THEN commitIndex[p]
        ELSE log[p][CHOOSE i \in majority : \A j \in majority : i >= j].Index

(***************************************************************************)
(* updateCommitIndex: the highest entry of the leader's current term,      *)
(* above commitIndex, that more than half of the peers hold according to   *)
(* matchIndex (the leader counts itself); commitIndex when there is none.  *)
(***************************************************************************)
updateCommitIndex(p, match) ==
    LET held(i) == /\ log[p][i].Term = term[p]
                   /\ log[p][i].Index > commitIndex[p]
                   /\ 1 + Cardinality({ q \in Peers \ {p} : match[q] >= log[p][i].Index })
                          > halfOfPeers
        majority == { i \in 1..Len(log[p]) : held(i) \/ 1 > halfOfPeers }
    IN  IF majority = {} THEN commitIndex[p]
        ELSE log[p][CHOOSE i \in majority : \A j \in majority : i >= j].Index

(***************************************************************************)
(* sendAppendEntries, after the RPC returned: a reply is dropped when the  *)
(* peer is no longer the leader of the term of the call; a later term      *)
(* makes it a follower; a success with entries advances matchIndex and     *)
(* nextIndex and updates commitIndex; a refusal moves nextIndex back.      *)
(***************************************************************************)
appendEntriesReply(r) ==
    LET p == r.to
        q == r.from
        newMatch == [matchIndex[p] EXCEPT ![q] = r.args.PreLogIndex + Len(r.args.Entries)]
    IN  /\ r \in aeReplies
        /\ aeReplies' = aeReplies \ {r}
        /\ IF state[p] # Leader \/ r.args.Term # term[p]
           THEN UNCHANGED <<term, state, votedFor, commitIndex, nextIndex, matchIndex>>
           ELSE IF r.Term > term[p]
           THEN /\ term' = [term EXCEPT ![p] = r.Term]
                /\ state' = [state EXCEPT ![p] = Follower]
                /\ votedFor' = [votedFor EXCEPT ![p] = NoVote]
                /\ UNCHANGED <<commitIndex, nextIndex, matchIndex>>
           ELSE IF r.Success
           THEN IF Len(r.args.Entries) > 0
                THEN /\ matchIndex' = [matchIndex EXCEPT ![p] = newMatch]
                     /\ nextIndex' = [nextIndex EXCEPT ![p][q] = newMatch[q] + 1]
                     /\ commitIndex' = [commitIndex EXCEPT ![p] = updateCommitIndex(p, newMatch)]
                     /\ UNCHANGED <<term, state, votedFor>>
                ELSE UNCHANGED <<term, state, votedFor, commitIndex, nextIndex, matchIndex>>
           ELSE /\ nextIndex' = [nextIndex EXCEPT ![p][q] =
                        Max(1, Min(r.ConflictingLogIndex, getLastLogIndex(p)))]
                /\ UNCHANGED <<term, state, votedFor, commitIndex, matchIndex>>
        /\ UNCHANGED <<log, voteCount, pendingLeader, rvRequests, rvReplies, aeRequests>>

(***************************************************************************)
(* An election run without interleaving: beginElection at p, RequestVote   *)
(* at every peer of voters, whose replies p counts, and becomeLeader.  The *)
(* calls to the other peers are lost.                                      *)
(***************************************************************************)
electLeader(p, voters) ==
    LET newTerm == term[p] + 1
        grants(q) == /\ checkIfLogUpdateToDate(q, getLastLogEntry(p)[1], getLastLogEntry(p)[2])
                     /\ \/ newTerm > term[q]
                        \/ newTerm = term[q] /\ votedFor[q] \in {NoVote, p}
    IN  /\ state[p] # Leader
        /\ p \in voters
        /\ Cardinality(voters) > halfOfPeers
        /\ \A q \in voters \ {p} : grants(q)
        /\ term' = [q \in Peers |-> IF q \in voters THEN newTerm ELSE term[q]]
        /\ state' = [q \in Peers |->
                IF q = p THEN Leader
                ELSE IF q \in voters /\ newTerm > term[q] THEN Follower ELSE state[q]]
        /\ votedFor' = [q \in Peers |-> IF q \in voters THEN p ELSE votedFor[q]]
        /\ voteCount' = [voteCount EXCEPT ![p] = Append(@, Cardinality(voters))]
        /\ nextIndex' = [nextIndex EXCEPT
                ![p] = [q \in Peers |-> IF q = p THEN 0 ELSE getLastLogIndex(p) + 1]]
        /\ matchIndex' = [matchIndex EXCEPT ![p] = [q \in Peers |-> 0]]
        /\ UNCHANGED <<log, commitIndex, pendingLeader, rvRequests, rvReplies,
                       aeRequests, aeReplies>>

(***************************************************************************)
(* SpecRaft: three peers, elections up to term RaftMaxTerm, logs of up to  *)
(* RaftMaxLog entries, up to RaftMaxInFlight AppendEntries calls in        *)
(* flight, which are handled in any order or never.                        *)
(***************************************************************************)
Cmds == {"x"}

RaftNext ==
    \/ \E p \in Peers, voters \in SUBSET Peers :
            /\ term[p] < RaftMaxTerm
            /\ electLeader(p, voters)
            /\ UNCHANGED <<shardVars, handlerVars, ckconfig, persistVars, votesGranted, sideVars>>
    \/ \E p \in Peers, cmd \in Cmds :
            /\ Len(log[p]) < RaftMaxLog
            /\ Start(p, cmd)
            /\ UNCHANGED <<shardVars, handlerVars, ckconfig, persistVars, votesGranted, sideVars>>
    \/ \E p \in Peers, q \in Peers :
            /\ Cardinality(aeRequests) + Cardinality(aeReplies) < RaftMaxInFlight
            /\ sendAppendEntries(p, q)
            /\ UNCHANGED <<shardVars, handlerVars, ckconfig, persistVars, votesGranted, sideVars>>
    \/ \E m \in aeRequests : AppendEntries(m)
            /\ UNCHANGED <<shardVars, handlerVars, ckconfig, persistVars, votesGranted, sideVars>>
    \/ \E r \in aeReplies : appendEntriesReply(r)
            /\ UNCHANGED <<shardVars, handlerVars, ckconfig, persistVars, votesGranted, sideVars>>

SpecRaft == Init /\ [][RaftNext]_vars

\* the entry of peer p's log with index i, as a set (empty when p holds none)
entryAt(p, i) == { [Term |-> log[p][j].Term, Cmd |-> log[p][j].Cmd] :
                   j \in { k \in 1..Len(log[p]) : log[p][k].Index = i } }

\* C3: for every pair of peers and every index up to the commitIndex of both, both hold
\* an entry at that index and it has the same term and command.
C3_Agreement ==
    \A p \in Peers, q \in Peers :
        \A i \in 1..Min(commitIndex[p], commitIndex[q]) :
            entryAt(p, i) # {} /\ entryAt(p, i) = entryAt(q, i)

\* two peers hold different entries at an index that both have committed
C3_CommittedEntryReplaced ==
    \E p \in Peers, q \in Peers :
        \E i \in 1..Min(commitIndex[p], commitIndex[q]) :
            entryAt(p, i) # {} /\ entryAt(q, i) # {} /\ entryAt(p, i) # entryAt(q, i)

\* C20: an AppendEntries call that the follower accepts (its previous entry matches) and
\* whose entries differ from the follower's at no position leaves every entry of the
\* follower's log in place, the entries beyond the last incoming one included.
C20_LogKeptWithoutConflict ==
    [][\A m \in aeRequests :
        LET p == m.to
            pos == preLogIndexInCurLogPos(log[p], m.PreLogIndex, m.PreLogTerm)
            k == consistentPrefix(log[p], pos, m.Entries, 0)
        IN  ( /\ AppendEntries(m)
              /\ m.Term >= term[p]
              /\ (pos > 0 \/ (m.PreLogIndex = 0 /\ m.PreLogTerm = 0))
              /\ (k = Len(m.Entries) \/ pos + k = Len(log[p])) )
            => /\ Len(log'[p]) >= Len(log[p])
               /\ SubSeq(log'[p], 1, Len(log[p])) = log[p]]_vars

(***************************************************************************)
(* SpecCommit: the actions of SpecRaft with logs of up to CmMaxLog         *)
(* entries; the election timer fires at two of the peers only, and every   *)
(* peer receives the RequestVote calls.                                    *)
(***************************************************************************)
CmCandidates == {1, 2}

CommitNext ==
    \/ \E p \in CmCandidates, voters \in {Peers} :
            /\ term[p] < CmMaxTerm
            /\ electLeader(p, voters)
            /\ UNCHANGED <<shardVars, handlerVars, ckconfig, persistVars, votesGranted, sideVars>>
    \/ \E p \in Peers, cmd \in Cmds :
            /\ Len(log[p]) < CmMaxLog
            /\ Start(p, cmd)
            /\ UNCHANGED <<shardVars, handlerVars, ckconfig, persistVars, votesGranted, sideVars>>
    \/ \E p \in Peers, q \in Peers :
            /\ Cardinality(aeRequests) + Cardinality(aeReplies) < CmMaxInFlight
            /\ sendAppendEntries(p, q)
            /\ UNCHANGED <<shardVars, handlerVars, ckconfig, persistVars, votesGranted, sideVars>>
    \/ \E m \in aeRequests : AppendEntries(m)
            /\ UNCHANGED <<shardVars, handlerVars, ckconfig, persistVars, votesGranted, sideVars>>
    \/ \E r \in aeReplies : appendEntriesReply(r)
            /\ UNCHANGED <<shardVars, handlerVars, ckconfig, persistVars, votesGranted, sideVars>>

SpecCommit == Init /\ [][CommitNext]_vars

\* index N is held by a strict majority according to p's matchIndex (p counts itself)
\* and p's entry at N is of p's current term
committable(p, match, N) ==
    /\ \E j \in 1..Len(log[p]) : log[p][j].Index = N /\ log[p][j].Term = term[p]
    /\ 2 * Cardinality({ q \in Peers : q = p \/ match[q] >= N }) > Cardinality(Peers)

\* C19: when the leader's handling of an AppendEntries reply changes commitIndex, the new
\* value N is the index of an entry of its current term that a strict majority holds
\* according to matchIndex, and no higher index of its log is such.
C19_CommitOnlyCurrentTermMajority ==
    [][\A r \in aeReplies :
        (appendEntriesReply(r) /\ commitIndex'[r.to] # commitIndex[r.to])
        => /\ commitIndex'[r.to] > commitIndex[r.to]
           /\ committable(r.to, matchIndex'[r.to], commitIndex'[r.to])
           /\ \A j \in 1..Len(log[r.to]) :
                log[r.to][j].Index > commitIndex'[r.to]
                => ~committable(r.to, matchIndex'[r.to], log[r.to][j].Index)]_vars

\* a leader holds an entry of an earlier term that a follower acknowledged, uncommitted
C19_OldTermEntryNotCommitted ==
    \E p \in Peers, q \in Peers :
        /\ q # p
        /\ state[p] = Leader
        /\ Len(log[p]) > 0
        /\ log[p][Len(log[p])].Term < term[p]
        /\ matchIndex[p][q] >= log[p][Len(log[p])].Index
        /\ commitIndex[p] < log[p][Len(log[p])].Index

(***************************************************************************)
(* SpecEntry: SpecHandler with the poller and the migration, and with the  *)
(* client's requests reaching any replica followed, leader or not, owner   *)
(* of the shard or not.  Group 1 elects once, group 2 twice.               *)
(***************************************************************************)
EHasRoom(g, n) == Len(rlog[g]) + n <= EMaxLog
ETermsOf(g) == IF g = 1 THEN EMaxTerm ELSE EMaxTerm2

EntryNext ==
    \/ \E shards \in NextShards : Len(configs) - 1 < EMaxCfg /\ Publish(shards)
            /\ UNCHANGED <<raftVars, persistVars, votesGranted, sideVars>>
    \/ \E g \in Gids, r \in Replicas, n \in 0..EMaxLog :
            rterm[g] < ETermsOf(g) /\ BecomeLeader(g, r, n)
            /\ UNCHANGED <<raftVars, persistVars, votesGranted, sideVars>>
    \/ \E g \in Gids : Commit(g)
            /\ UNCHANGED <<raftVars, persistVars, votesGranted, sideVars>>
    \/ \E s \in MigServers :
            EHasRoom(gidOf(s), Len(configs)) /\ periodCheckShardMasterConfig(s)
            /\ UNCHANGED <<raftVars, persistVars, votesGranted, sideVars>>
    \/ \E s \in MigServers, c \in Clients, serial \in 1..2, key \in MigKeys :
            /\ EHasRoom(gidOf(s), 1) /\ Len(calls) < EMaxCalls
            /\ HMethodOf(serial) = "Get"
            /\ Get(s, c, serial, key)
            /\ UNCHANGED <<raftVars, persistVars, votesGranted, sideVars>>
    \/ \E s \in MigServers, c \in Clients, serial \in 1..2, key \in MigKeys :
            /\ EHasRoom(gidOf(s), 1) /\ Len(calls) < EMaxCalls
            /\ PutAppend(s, c, serial, key, HMethodOf(serial))
            /\ UNCHANGED <<raftVars, persistVars, votesGranted, sideVars>>
    \/ \E h \in DOMAIN calls : awaitRegister(h)
            /\ UNCHANGED <<raftVars, persistVars, votesGranted, sideVars>>
    \/ \E h \in DOMAIN calls : awaitReceive(h)
            /\ UNCHANGED <<raftVars, persistVars, votesGranted, sideVars>>
    \/ \E h \in DOMAIN calls : awaitTimeout(h)
            /\ UNCHANGED <<raftVars, persistVars, votesGranted, sideVars>>
    \/ \E h \in DOMAIN calls : getReply(h)
            /\ UNCHANGED <<raftVars, persistVars, votesGranted, sideVars>>
    \/ \E s \in MigServers : periodCheckApplyMsg(s, NoSnapshots)
            /\ UNCHANGED <<raftVars, persistVars, votesGranted, sideVars>>
    \/ \E s \in MigServers, d \in MigServers, ok \in BOOLEAN :
            EHasRoom(gidOf(s), 1) /\ EHasRoom(gidOf(d), 1) /\ MigrateShard(s, d, ok)
            /\ UNCHANGED <<raftVars, persistVars, votesGranted, sideVars>>
    \/ \E s \in MigServers : resumeApplyConfig(s, NoSnapshots)
            /\ UNCHANGED <<raftVars, persistVars, votesGranted, sideVars>>

SpecEntry == Init /\ [][EntryNext]_vars

\* the replica state that a handler returning early must leave alone
replicaVars == <<kv, rlog, rcommit, lastApplied, snapshot, sending, requestHandlers, mutex>>

\* C12: a Get or PutAppend received by a leader whose status for the key's shard is not
\* AVAILABLE returns with err = ErrWrongGroup in the step that receives it, starts no Op
\* and changes no replica state.
C12_WrongGroupRejected ==
    [][Len(calls') = Len(calls) + 1 =>
        LET call == calls'[Len(calls')]
            s == call.server
        IN  (IsLeader(s) /\ kv[s].ShardStatusList[key2shard(call.op.Key)] # AVAILABLE)
            => /\ call.pc = "replied"
               /\ call.Err = "ErrWrongGroup"
               /\ UNCHANGED replicaVars]_vars

\* a leader that is exporting the key's shard has answered a request with ErrWrongGroup
C12_RejectedWhileExporting ==
    \E h \in DOMAIN calls :
        /\ calls[h].pc = "replied"
        /\ calls[h].Err = "ErrWrongGroup"
        /\ IsLeader(calls[h].server)
        /\ kv[calls[h].server].ShardStatusList[key2shard(calls[h].op.Key)] = EXPORTING

C14_DuplicateMigrateShardAcked ==
    \A s \in Servers, d \in Servers :
        ( /\ sending[s].active /\ ~sending[s].resume
          /\ gidOf(d) = sending[s].destGid
          /\ IsLeader(d)
          /\ kv[d].ShardStatusList[sending[s].shard] = AVAILABLE )
        => migrateShardReply(d, sending[s].shard) = [WrongLeader |-> FALSE, Err |-> "OK"]

\* the destination has applied ImportComplete of the migration and owns the shard, the
\* acknowledgement was lost and the sender is calling again
C14_RetryAfterLostAck ==
    \E s \in Servers, d \in Servers :
        /\ sending[s].active /\ ~sending[s].resume
        /\ gidOf(d) = sending[s].destGid
        /\ IsLeader(d)
        /\ kv[d].ShardStatusList[sending[s].shard] = AVAILABLE
        /\ \E n \in 1..lastApplied[d] :
                ImportCompleteIn(gidOf(d), n, sending[s].shard, sending[s].cfg.Num)


(***************************************************************************)
(* SpecImport: the migration of shard 0 from group 2 to group 1, with both *)
(* replicas of group 1 followed and a second election in group 1.  The     *)
(* first configuration gives every shard to group 2, the next moves shard  *)
(* 0 to group 1.  A new leader holds the whole log of the old one.         *)
(***************************************************************************)
ImNextShards ==
    IF Len(configs) = 1 THEN {[sh \in Shards |-> 2]}
    ELSE {[configs[Len(configs)].Shards EXCEPT ![0] = 1]}

ImHasRoom(g, n) == Len(rlog[g]) + n <= (IF g = 1 THEN ImMaxLog ELSE ImMaxLog2)
ImTermsOf(g) == IF g = 1 THEN ImMaxTerm ELSE ImMaxTerm2
ImReplicasOf(g) == IF g = 1 THEN Replicas ELSE {1}

ImportNext ==
    \/ \E shards \in ImNextShards : Len(configs) - 1 < ImMaxCfg /\ Publish(shards)
            /\ UNCHANGED <<raftVars, persistVars, votesGranted, sideVars>>
    \/ \E g \in Gids : \E r \in ImReplicasOf(g) :
            rterm[g] < ImTermsOf(g) /\ BecomeLeader(g, r, Len(rlog[g]))
            /\ UNCHANGED <<raftVars, persistVars, votesGranted, sideVars>>
    \/ \E g \in Gids : Commit(g)
            /\ UNCHANGED <<raftVars, persistVars, votesGranted, sideVars>>
    \/ \E s \in Servers :
            /\ ImHasRoom(gidOf(s), Len(configs) - 1 - kv[s].LatestCfg.Num)
            /\ periodCheckShardMasterConfig(s)
            /\ UNCHANGED <<raftVars, persistVars, votesGranted, sideVars>>
    \/ \E s \in Servers, c \in Clients, key \in MigKeys :
            /\ ImHasRoom(gidOf(s), 1) /\ Len(issued[c]) < ImMaxSerial
            /\ PutAppendStart(s, c, Len(issued[c]) + 1, key)
            /\ UNCHANGED <<raftVars, persistVars, votesGranted, sideVars>>
    \/ \E s \in Servers : periodCheckApplyMsg(s, NoSnapshots)
            /\ UNCHANGED <<raftVars, persistVars, votesGranted, sideVars>>
    \/ \E s \in Servers, d \in Servers, ok \in BOOLEAN :
            ImHasRoom(gidOf(s), 1) /\ ImHasRoom(gidOf(d), 1) /\ MigrateShard(s, d, ok)
            /\ UNCHANGED <<raftVars, persistVars, votesGranted, sideVars>>
    \/ \E s \in Servers : resumeApplyConfig(s, NoSnapshots)
            /\ UNCHANGED <<raftVars, persistVars, votesGranted, sideVars>>

SpecImport == Init /\ [][ImportNext]_vars

\* replica s has applied an ImportComplete of the migration that command cmd is of
importedBefore(s, cmd) ==
    \E i \in 1..lastApplied[s] :
        /\ rlog[gidOf(s)][i].Cmd.Method = "ImportComplete"
        /\ rlog[gidOf(s)][i].Cmd.ShardNumber = cmd.ShardNumber
        /\ rlog[gidOf(s)][i].Cmd.BroadcastCfgVersion = cmd.BroadcastCfgVersion

\* C15: MigrateShard is idempotent on the destination: when a replica applies a further
\* ImportComplete of a migration it has applied one of already, its KV map, duplicate
\* table and shard statuses stay as they are (a client write applied in between is kept).
C15_ImportCompleteAppliedOnce ==
    [][\A s \in Servers :
          (Applies(s, "ImportComplete")
              /\ importedBefore(s, rlog[gidOf(s)][lastApplied[s] + 1].Cmd))
          => /\ kv'[s].Kvmap = kv[s].Kvmap
             /\ kv'[s].latestRequests = kv[s].latestRequests
             /\ kv'[s].ShardStatusList = kv[s].ShardStatusList]_vars

\* a replica has applied a client's write to the shard after an ImportComplete, and the
\* next entry of its log is another ImportComplete of the same migration
C15_WriteBetweenImports ==
    \E s \in Servers :
        /\ lastApplied[s] >= 2
        /\ Len(rlog[gidOf(s)]) > lastApplied[s]
        /\ rlog[gidOf(s)][lastApplied[s]].Cmd.Method \in {"Put", "Append"}
        /\ rlog[gidOf(s)][lastApplied[s] + 1].Cmd.Method = "ImportComplete"
        /\ importedBefore(s, rlog[gidOf(s)][lastApplied[s] + 1].Cmd)


(***************************************************************************)
(* SpecRound: the client's Put, Append and Get at group 1, the owner of    *)
(* both shards in the only configuration published.  Both replicas of the  *)
(* group are followed, the group elects up to RnMaxTerm leaders, the       *)
(* leader polls, and the clerk sends an operation again until it has a     *)
(* reply without wrong_leader.                                             *)
(***************************************************************************)
RnServers == {<<1, 1>>, <<1, 2>>}
RnHasRoom(g, n) == Len(rlog[g]) + n <= RnMaxLog

\* the operations of the client of SpecRound: a Put, then a Get
RnMethodOf(serial) == HMethodOf(serial)

RoundNext ==
    \/ \E shards \in NextShards : Len(configs) - 1 < RnMaxCfg /\ Publish(shards)
            /\ UNCHANGED <<raftVars, persistVars, votesGranted, sideVars>>
    \/ \E r \in Replicas, n \in 0..RnMaxLog :
            rterm[1] < RnMaxTerm /\ BecomeLeader(1, r, n)
            /\ UNCHANGED <<raftVars, persistVars, votesGranted, sideVars>>
    \/ Commit(1)
            /\ UNCHANGED <<raftVars, persistVars, votesGranted, sideVars>>
    \/ \E s \in RnServers :
            /\ RnHasRoom(gidOf(s), Len(configs) - 1 - kv[s].LatestCfg.Num)
            /\ periodCheckShardMasterConfig(s)
            /\ UNCHANGED <<raftVars, persistVars, votesGranted, sideVars>>
    \/ \E s \in RnServers, c \in Clients, serial \in 1..RnMaxSerial, key \in MigKeys :
            /\ RnHasRoom(gidOf(s), 1) /\ Len(calls) < RnMaxCalls
            /\ IsLeader(s) /\ checkIfOwnsKey(kv[s], key)
            /\ RnMethodOf(serial) = "Get"
            /\ Get(s, c, serial, key)
            /\ UNCHANGED <<raftVars, persistVars, votesGranted, sideVars>>
    \/ \E s \in RnServers, c \in Clients, serial \in 1..RnMaxSerial, key \in MigKeys :
            /\ RnHasRoom(gidOf(s), 1) /\ Len(calls) < RnMaxCalls
            /\ IsLeader(s) /\ checkIfOwnsKey(kv[s], key)
            /\ PutAppend(s, c, serial, key, RnMethodOf(serial))
            /\ UNCHANGED <<raftVars, persistVars, votesGranted, sideVars>>
    \/ \E h \in DOMAIN calls : awaitRegister(h)
            /\ UNCHANGED <<raftVars, persistVars, votesGranted, sideVars>>
    \/ \E h \in DOMAIN calls : awaitReceive(h)
            /\ UNCHANGED <<raftVars, persistVars, votesGranted, sideVars>>
    \/ \E h \in DOMAIN calls : awaitTimeout(h)
            /\ UNCHANGED <<raftVars, persistVars, votesGranted, sideVars>>
    \/ \E h \in DOMAIN calls : getReply(h)
            /\ UNCHANGED <<raftVars, persistVars, votesGranted, sideVars>>
    \/ \E s \in RnServers : periodCheckApplyMsg(s, NoSnapshots)
            /\ UNCHANGED <<raftVars, persistVars, votesGranted, sideVars>>

SpecRound == Init /\ [][RoundNext]_vars

\* C16: round trip at the owning group without a configuration change: a Get that
\* replies returns the value that the client's Puts and Appends answered before it
\* produce for the key (v after Put(k,v), v then w after Append(k,w)), and ErrNoKey for
\* a key never written.
C16_RoundTrip ==
    \A h \in DOMAIN calls :
        (calls[h].pc = "replied" /\ ~calls[h].WrongLeader /\ calls[h].op.Method = "Get") =>
            LET expected == valueAfter(issued[calls[h].op.ClientId], calls[h].op.Key,
                                       calls[h].op.SerialNum - 1)
            IN  IF expected.present
                THEN calls[h].Err = "OK" /\ calls[h].Value = expected.value
                ELSE calls[h].Err = "ErrNoKey"


\* the client's Put was answered OK and its Get, started afterwards, has a reply
C16_GetAnsweredAfterPut ==
    \E h \in DOMAIN calls :
        /\ calls[h].pc = "replied" /\ ~calls[h].WrongLeader /\ calls[h].op.Method = "Get"
        /\ calls[h].op.SerialNum = 2
        /\ Completed(calls[h].op.ClientId, 1)


(***************************************************************************)
(* Snapshots in Raft (raft.go:151-255, 897-1003, 1067-1159) and the apply  *)
(* loop of the service that takes them (server.go:122-145, 338-433).  The  *)
(* Persister of a peer holds two byte slices, raftstate and snapshot:      *)
(* SaveRaftState replaces the first, SaveStateAndSnapshot both at once.    *)
(* A slice is <<>> (nil) or <<v>>, v the value encoded.                    *)
(***************************************************************************)
PsPeers == {1, 2}

\* raft.go:151-163, getPersistState, and the encoding in persist (raft.go:211-219)
getPersistState(t, v, lg, snap) ==
    <<[term |-> t, votedFor |-> v, log |-> lg,
       lastSnapshotIndex |-> snap.Index, lastSnapshotTerm |-> snap.Term]>>

SaveRaftState(ps, data) == [ps EXCEPT !.raftstate = data]
SaveStateAndSnapshot(ps, data, snap) == [raftstate |-> data, snapshot |-> snap]

\* raft.go:226-255, readPersist: lastSnapshotIndex of the persisted state, Make's 0 for
\* an empty one
persistedSnapshotIndex(ps) ==
    IF ps.raftstate = <<>> THEN 0 ELSE ps.raftstate[1].lastSnapshotIndex

\* server.go:147-160, loadSnapshot: the SnapshotIndex the blob decodes to; StartServer
\* (server.go:722-724) does not load an empty blob and SnapshotIndex stays 0
decodedSnapshotIndex(ps) ==
    IF ps.snapshot = <<>> THEN 0 ELSE ps.snapshot[1].SnapshotIndex

\* the command of the log entry v as the service reads it: the Append of the entry's
\* index to key "a", the request of client 1 with the index as its serial number
clientOpOf(v) ==
    [ZeroOp EXCEPT !.Method = "Append", !.Key = "a", !.Value = <<v.Index>>,
                   !.ClientId = 1, !.SerialNum = v.Index]

\* the state of the service whose apply loop is a
serviceState(a) ==
    [FreshKV EXCEPT !.Kvmap = a.Kvmap, !.latestRequests = a.latestRequests,
                    !.SnapshotIndex = a.SnapshotIndex]

\* server.go:344-349 and 722-724: the apply loop a after the service loaded the snapshot
\* of the Persister ps; an empty blob is not loaded at start
serviceLoads(a, ps) ==
    IF ps.snapshot = <<>> THEN a
    ELSE LET st == loadSnapshot(serviceState(a), ps.snapshot[1])
         IN  [a EXCEPT !.Kvmap = st.Kvmap, !.latestRequests = st.latestRequests,
                       !.SnapshotIndex = st.SnapshotIndex]

\* server.go:352-364: the apply loop a after the service applied the entry v
serviceApplies(a, v) ==
    LET st == applyClientOp(serviceState(a), clientOpOf(v))
    IN  [a EXCEPT !.Kvmap = st.Kvmap, !.latestRequests = st.latestRequests,
                  !.lastCommandIndex = v.Index, !.pending = TRUE]

\* raft.go:786-792, getLastLogEntry with the snapshot the peer holds
lastLogEntryOf(lg, snap) ==
    IF Len(lg) > 0 THEN <<lg[Len(lg)].Index, lg[Len(lg)].Term>>
    ELSE <<snap.Index, snap.Term>>

\* raft.go:888-895, findLogIndex: the position of the entry with the index, 0 for none
findLogIndex(lg, logIndex) ==
    IF \E i \in 1..Len(lg) : lg[i].Index = logIndex
    THEN CHOOSE i \in 1..Len(lg) :
            lg[i].Index = logIndex /\ \A j \in 1..(i - 1) : lg[j].Index # logIndex
    ELSE 0

(***************************************************************************)
(* raft.go:794-859 and 760-784, run without interleaving: p calls          *)
(* beginElection, peer q grants its vote (RequestVote, raft.go:292-319)    *)
(* and p becomes leader.  Both persist.                                    *)
(***************************************************************************)
winElection(p, q) ==
    LET newTerm == term[p] + 1
        mine == lastLogEntryOf(log[p], lastSnapshot[p])
        theirs == lastLogEntryOf(log[q], lastSnapshot[q])
    IN  /\ p # q
        /\ state[p] # Leader
        /\ newTerm > term[q]
        /\ mine[2] > theirs[2] \/ (mine[2] = theirs[2] /\ mine[1] >= theirs[1])
        /\ term' = [term EXCEPT ![p] = newTerm, ![q] = newTerm]
        /\ state' = [state EXCEPT ![p] = Leader, ![q] = Follower]
        /\ votedFor' = [votedFor EXCEPT ![p] = p, ![q] = p]
        /\ persister' = [persister EXCEPT
                ![p] = SaveRaftState(@, getPersistState(newTerm, p, log[p], lastSnapshot[p])),
                ![q] = SaveRaftState(@, getPersistState(newTerm, p, log[q], lastSnapshot[q]))]
        /\ UNCHANGED <<log, commitIndex, nextIndex, matchIndex, voteCount, pendingLeader,
                       rvRequests, rvReplies, aeRequests, aeReplies,
                       lastSnapshot, applier, isRequests, applyVars>>

\* raft.go:536-563, Start on the leader, with the snapshot the peer holds
startEntry(p) ==
    LET entry == [Cmd |-> "x", Term |-> term[p],
                  Index |-> IF Len(log[p]) > 0 THEN log[p][Len(log[p])].Index + 1
                            ELSE Max(1, lastSnapshot[p].Index + 1)]
    IN  /\ state[p] = Leader
        /\ log' = [log EXCEPT ![p] = Append(@, entry)]
        /\ persister' = [persister EXCEPT ![p] =
                SaveRaftState(@, getPersistState(term[p], votedFor[p], log'[p],
                                                 lastSnapshot[p]))]
        /\ UNCHANGED <<term, state, votedFor, commitIndex, nextIndex, matchIndex, voteCount,
                       pendingLeader, rvRequests, rvReplies, aeRequests, aeReplies,
                       lastSnapshot, applier, isRequests, applyVars>>

(***************************************************************************)
(* raft.go:346-461, AppendEntries of leader q at p whose last entry is the *)
(* one before the first entry sent (no conflict): p appends q's entries    *)
(* after its own, follows q's commit index and persists.  The reply lets   *)
(* q commit what p holds now (raft.go:579-608).                            *)
(***************************************************************************)
appendEntry(q, p) ==
    LET prev == lastLogEntryOf(log[p], lastSnapshot[p])
        news == SelectSeq(log[q], LAMBDA e : e.Index > prev[1])
        held == \/ prev[1] = 0
                \/ \E i \in 1..Len(log[q]) : <<log[q][i].Index, log[q][i].Term>> = prev
                \/ <<lastSnapshot[q].Index, lastSnapshot[q].Term>> = prev
        last == lastLogEntryOf(log[p] \o news, lastSnapshot[p])[1]
    IN  /\ p # q
        /\ state[q] = Leader
        /\ term[q] >= term[p]
        /\ held
        /\ news # <<>>
        /\ news[1].Index = prev[1] + 1
        /\ term' = [term EXCEPT ![p] = term[q]]
        /\ state' = [state EXCEPT ![p] = Follower]
        /\ votedFor' = [votedFor EXCEPT ![p] = q]
        /\ log' = [log EXCEPT ![p] = @ \o news]
        /\ commitIndex' = [commitIndex EXCEPT ![q] = Max(@, last), ![p] = Max(@, last)]
        /\ persister' = [persister EXCEPT ![p] =
                SaveRaftState(@, getPersistState(term[q], q, log'[p], lastSnapshot[p]))]
        /\ UNCHANGED <<nextIndex, matchIndex, voteCount, pendingLeader,
                       rvRequests, rvReplies, aeRequests, aeReplies,
                       lastSnapshot, applier, isRequests, applyVars>>

(***************************************************************************)
(* raft.go:946-1003, startLocalApplyProcess, one message of it: the        *)
(* snapshot when lastApplied is behind it, which the service loads         *)
(* (server.go:346-350), else the next committed entry, which the service   *)
(* applies before it calls snapshotIfNeeded (server.go:419).               *)
(***************************************************************************)
deliver(p) ==
    LET a == applier[p]
        found == findLogIndex(log[p], a.lastApplied + 1)
        startIndex == Max(found, 1)
    IN  /\ ~a.pending
        /\ IF a.lastApplied < lastSnapshot[p].Index
           THEN /\ applier' = [applier EXCEPT ![p] =
                        [serviceLoads(@, persister[p]) EXCEPT
                            !.lastApplied = lastSnapshot[p].Index]]
                /\ persister' = [persister EXCEPT ![p] =
                        SaveRaftState(@, getPersistState(term[p], votedFor[p], log[p],
                                                         lastSnapshot[p]))]
           ELSE /\ commitIndex[p] > a.lastApplied
                /\ startIndex <= Len(log[p])
                /\ log[p][startIndex].Index <= commitIndex[p]
                /\ applier' = [applier EXCEPT ![p] =
                        [serviceApplies(@, log[p][startIndex]) EXCEPT !.lastApplied = @ + 1]]
                /\ UNCHANGED persister
        /\ UNCHANGED <<raftVars, lastSnapshot, isRequests, applyVars>>

\* raft.go:171-194, PersistAndSaveSnapshot: <<log, lastSnapshot, persister>> of p after it
PersistAndSaveSnapshot(p, lastIncludedIndex, blob) ==
    LET i == findLogIndex(log[p], lastIncludedIndex)
        lg == SubSeq(log[p], i, Len(log[p]))
        snap == [Index |-> log[p][i].Index, Term |-> log[p][i].Term]
    IN  IF lastIncludedIndex > lastSnapshot[p].Index /\ i > 0
        THEN <<lg, snap,
               SaveStateAndSnapshot(persister[p],
                                    getPersistState(term[p], votedFor[p], lg, snap), blob)>>
        ELSE <<log[p], lastSnapshot[p], persister[p]>>

(***************************************************************************)
(* server.go:136-145 and 122-134, snapshotIfNeeded after a command: when   *)
(* the Raft state has reached the threshold (its log holds PsMaxRaftState  *)
(* entries) the service encodes its state with the command's index and     *)
(* hands the blob to PersistAndSaveSnapshot.                               *)
(***************************************************************************)
snapshotIfNeededAt(p, maxraftstate) ==
    LET a == applier[p]
        st == serviceState(a)
        r == PersistAndSaveSnapshot(p, a.lastCommandIndex,
                                    <<encodeSnapshot(st, a.lastCommandIndex)>>)
    IN  /\ a.pending
        /\ IF Len(log[p]) >= maxraftstate
           THEN /\ applier' = [applier EXCEPT ![p] =
                        [@ EXCEPT !.pending = FALSE, !.SnapshotIndex = a.lastCommandIndex]]
                /\ log' = [log EXCEPT ![p] = r[1]]
                /\ lastSnapshot' = [lastSnapshot EXCEPT ![p] = r[2]]
                /\ persister' = [persister EXCEPT ![p] = r[3]]
           ELSE /\ applier' = [applier EXCEPT ![p].pending = FALSE]
                /\ UNCHANGED <<log, lastSnapshot, persister>>
        /\ UNCHANGED <<term, state, votedFor, commitIndex, nextIndex, matchIndex, voteCount,
                       pendingLeader, rvRequests, rvReplies, aeRequests, aeReplies,
                       isRequests, applyVars>>

snapshotIfNeeded(p) == snapshotIfNeededAt(p, PsMaxRaftState)

\* raft.go:1067-1083, sendSnapshot up to the RPC: the arguments are built under the lock
sendSnapshot(q, p) ==
    /\ p # q
    /\ state[q] = Leader
    /\ lastSnapshot[q].Index > 0
    /\ isRequests' = isRequests \cup
            {[to |-> p, Term |-> term[q], LeaderId |-> q,
              LastIncludedIndex |-> lastSnapshot[q].Index,
              LastIncludedTerm |-> lastSnapshot[q].Term,
              Data |-> persister[q].snapshot]}
    /\ UNCHANGED <<raftVars, lastSnapshot, persister, applier, applyVars>>

(***************************************************************************)
(* raft.go:1115-1159, the call is delivered and InstallSnapshot runs at    *)
(* m.to: term, vote and persist; then, for a snapshot past its own, the    *)
(* indexes, the log, SaveStateAndSnapshot and persist once more.           *)
(***************************************************************************)
installSnapshot(m) ==
    LET p == m.to
        truncationStartIndex == m.LastIncludedIndex - lastSnapshot[p].Index
        snap == [Index |-> m.LastIncludedIndex, Term |-> m.LastIncludedTerm]
        lg == IF truncationStartIndex < Len(log[p])
              THEN SubSeq(log[p], truncationStartIndex + 1, Len(log[p]))
              ELSE <<>>
        newCommit == Max(commitIndex[p], m.LastIncludedIndex)
    IN  /\ m \in isRequests
        /\ isRequests' = isRequests \ {m}
        /\ IF m.Term < term[p]
           THEN UNCHANGED <<term, state, votedFor, log, commitIndex, lastSnapshot,
                            persister, applier>>
           ELSE /\ term' = [term EXCEPT ![p] = m.Term]
                /\ state' = [state EXCEPT ![p] = Follower]
                /\ votedFor' = [votedFor EXCEPT ![p] = m.LeaderId]
                /\ IF m.LastIncludedIndex > lastSnapshot[p].Index
                   THEN /\ lastSnapshot' = [lastSnapshot EXCEPT ![p] = snap]
                        /\ commitIndex' = [commitIndex EXCEPT ![p] = newCommit]
                        /\ log' = [log EXCEPT ![p] = lg]
                        /\ persister' = [persister EXCEPT ![p] =
                                SaveStateAndSnapshot(@,
                                    getPersistState(m.Term, m.LeaderId, lg, snap), m.Data)]
                        /\ applier' = [applier EXCEPT ![p].lastApplied =
                                IF newCommit > commitIndex[p] THEN 0 ELSE @]
                   ELSE /\ persister' = [persister EXCEPT ![p] =
                                SaveRaftState(@, getPersistState(m.Term, m.LeaderId, log[p],
                                                                 lastSnapshot[p]))]
                        /\ UNCHANGED <<log, commitIndex, lastSnapshot, applier>>
        /\ UNCHANGED <<nextIndex, matchIndex, voteCount, pendingLeader,
                       rvRequests, rvReplies, aeRequests, aeReplies, applyVars>>

(***************************************************************************)
(* The replica crashes and is started again from its Persister:            *)
(* StartServer loads the snapshot (server.go:722-724), Make and            *)
(* readPersist restore the Raft state and persist it (raft.go:1022-1052,   *)
(* 226-255).                                                               *)
(***************************************************************************)
Make(p) ==
    LET ps == persister[p]
        saved == ps.raftstate[1]
        snap == [Index |-> saved.lastSnapshotIndex, Term |-> saved.lastSnapshotTerm]
    IN  /\ ps.raftstate # <<>>
        /\ term' = [term EXCEPT ![p] = saved.term]
        /\ votedFor' = [votedFor EXCEPT ![p] = saved.votedFor]
        /\ log' = [log EXCEPT ![p] = saved.log]
        /\ lastSnapshot' = [lastSnapshot EXCEPT ![p] = snap]
        /\ state' = [state EXCEPT ![p] = Follower]
        /\ commitIndex' = [commitIndex EXCEPT ![p] = 0]
        /\ applier' = [applier EXCEPT ![p] =
                serviceLoads([lastApplied |-> 0, lastCommandIndex |-> 0, pending |-> FALSE,
                              SnapshotIndex |-> 0, Kvmap |-> FreshKV.Kvmap,
                              latestRequests |-> FreshKV.latestRequests], ps)]
        /\ persister' = [persister EXCEPT ![p] =
                SaveRaftState(@, getPersistState(saved.term, saved.votedFor, saved.log, snap))]
        /\ notifyApplyCh' = [notifyApplyCh EXCEPT ![p] = 0]
        /\ applyLoop' = [applyLoop EXCEPT ![p] = IdleLoop]
        /\ delivered' = [delivered EXCEPT ![p] = decodedSnapshotIndex(ps)]
        /\ UNCHANGED <<nextIndex, matchIndex, voteCount, pendingLeader,
                       rvRequests, rvReplies, aeRequests, aeReplies, isRequests, isReplies>>

(***************************************************************************)
(* SpecPersist: two peers of a group of three, elections up to term        *)
(* PsMaxTerm, log indexes up to PsMaxLog, a snapshot once the log holds    *)
(* PsMaxRaftState entries, up to PsMaxInFlight InstallSnapshot calls in    *)
(* flight, crashes of either peer.                                         *)
(***************************************************************************)
PersistNext ==
    \/ \E p \in PsPeers, q \in PsPeers : term[p] < PsMaxTerm /\ winElection(p, q)
            /\ UNCHANGED <<shardVars, handlerVars, ckconfig, votesGranted, sideVars>>
    \/ \E p \in PsPeers :
            lastLogEntryOf(log[p], lastSnapshot[p])[1] < PsMaxLog /\ startEntry(p)
            /\ UNCHANGED <<shardVars, handlerVars, ckconfig, votesGranted, sideVars>>
    \/ \E q \in PsPeers, p \in PsPeers : appendEntry(q, p)
            /\ UNCHANGED <<shardVars, handlerVars, ckconfig, votesGranted, sideVars>>
    \/ \E p \in PsPeers : deliver(p)
            /\ UNCHANGED <<shardVars, handlerVars, ckconfig, votesGranted, sideVars>>
    \/ \E p \in PsPeers : snapshotIfNeeded(p)
            /\ UNCHANGED <<shardVars, handlerVars, ckconfig, votesGranted, sideVars>>
    \/ \E q \in PsPeers, p \in PsPeers :
            Cardinality(isRequests) < PsMaxInFlight /\ sendSnapshot(q, p)
            /\ UNCHANGED <<shardVars, handlerVars, ckconfig, votesGranted, sideVars>>
    \/ \E m \in isRequests : installSnapshot(m)
            /\ UNCHANGED <<shardVars, handlerVars, ckconfig, votesGranted, sideVars>>
    \/ \E p \in PsPeers : Make(p)
            /\ UNCHANGED <<shardVars, handlerVars, ckconfig, votesGranted, sideVars>>

SpecPersist == Init /\ [][PersistNext]_vars

\* C17: at every instant the lastSnapshotIndex of the persisted Raft state of a peer
\* equals the snapshot index that its persisted snapshot decodes to (0 for no snapshot).
C17_PersistedPairAgrees ==
    \A p \in PsPeers :
        persistedSnapshotIndex(persister[p]) = decodedSnapshotIndex(persister[p])

\* a peer that took a snapshot itself holds a later one, installed from the leader, that
\* its service has not loaded yet
C17_InstalledOverOwnSnapshot ==
    \E p \in PsPeers :
        /\ applier[p].SnapshotIndex > 0
        /\ decodedSnapshotIndex(persister[p]) > applier[p].SnapshotIndex
        /\ persistedSnapshotIndex(persister[p]) = lastSnapshot[p].Index


(***************************************************************************)
(* SpecVote: SpecElection with the election timer of every peer (peer 1   *)
(* calls beginElection up to VtMaxElections times, the others up to        *)
(* VtMaxElections2 times), terms up to VtMaxTerm, up to VtMaxInFlight      *)
(* replies not handled to the end, and with the votes that RequestVote     *)
(* grants recorded in votesGranted.                                        *)
(***************************************************************************)
\* the reply that RequestVote(m) sends in this step grants the vote
grantsVote(m) ==
    \E r \in rvReplies' :
        /\ r.from = m.to /\ r.to = m.from /\ r.eid = m.eid
        /\ r.pc = "arrived" /\ r.VoteGranted

\* the number of times the election timer of p fires
VtElectionsOf(p) == IF p = 1 THEN VtMaxElections ELSE VtMaxElections2

VoteNext ==
    \/ \E p \in Peers :
            /\ term[p] < VtMaxTerm
            /\ Len(voteCount[p]) < VtElectionsOf(p)
            /\ beginElection(p)
            /\ UNCHANGED <<shardVars, handlerVars, ckconfig, persistVars, votesGranted, sideVars>>
    \/ \E m \in rvRequests :
            /\ Cardinality(rvReplies) < VtMaxInFlight
            /\ RequestVote(m)
            /\ votesGranted' = IF grantsVote(m)
                               THEN votesGranted \cup {<<m.to, term'[m.to], m.from>>}
                               ELSE votesGranted
            /\ UNCHANGED <<shardVars, handlerVars, ckconfig, persistVars, sideVars>>
    \/ \E m \in rvReplies : voteReplyCache(m)
            /\ UNCHANGED <<shardVars, handlerVars, ckconfig, persistVars, votesGranted, sideVars>>
    \/ \E m \in rvReplies : voteReplyCount(m)
            /\ UNCHANGED <<shardVars, handlerVars, ckconfig, persistVars, votesGranted, sideVars>>
    \/ \E m \in rvReplies : voteReplyLead(m)
            /\ UNCHANGED <<shardVars, handlerVars, ckconfig, persistVars, votesGranted, sideVars>>
    \/ \E p \in Peers : becomeLeader(p)
            /\ UNCHANGED <<shardVars, handlerVars, ckconfig, persistVars, votesGranted, sideVars>>

SpecVote == Init /\ [][VoteNext]_vars

\* C18: in one term a peer grants its vote to at most one candidate: no two votes that
\* RequestVote granted at one peer in one term are for different candidates.
C18_OneVotePerTerm ==
    \A v \in votesGranted, w \in votesGranted :
        (v[1] = w[1] /\ v[2] = w[2]) => v[3] = w[3]

\* a peer whose vote of the term was cleared by the handling of a late reply gets a
\* RequestVote of another candidate of the term
C18_VoteClearedInTerm ==
    \E v \in votesGranted : \E m \in rvRequests :
        /\ m.to = v[1] /\ m.Term = v[2] /\ m.from # v[3]
        /\ term[v[1]] = v[2]
        /\ votedFor[v[1]] = NoVote


(***************************************************************************)
(* SpecLive: the migration under fairness.  Two configurations, one leader *)
(* for each group that stays leader, no client.  Every step of the code    *)
(* that the scheduler or the network must let through in the end is        *)
(* weakly fair: the election, the commit, the poller, the apply loop, and  *)
(* a MigrateShard call whose reply arrives.  A reply may be lost while the *)
(* destination's log has room for the ImportComplete of one more call.     *)
(***************************************************************************)
LvHasRoom(g, n) == Len(rlog[g]) + n <= LvMaxLog

LvPublish ==
    /\ \E shards \in NextShards : Len(configs) - 1 < LvMaxCfg /\ Publish(shards)
    /\ UNCHANGED <<raftVars, persistVars, votesGranted, sideVars>>

LvBecomeLeader(g) ==
    /\ rterm[g] < LvMaxTerm /\ BecomeLeader(g, 1, Len(rlog[g]))
    /\ UNCHANGED <<raftVars, persistVars, votesGranted, sideVars>>

LvCommit(g) ==
    /\ Commit(g)
    /\ UNCHANGED <<raftVars, persistVars, votesGranted, sideVars>>

LvPoll(s) ==
    /\ LvHasRoom(gidOf(s), Len(configs) - 1 - kv[s].LatestCfg.Num)
    /\ periodCheckShardMasterConfig(s)
    /\ UNCHANGED <<raftVars, persistVars, votesGranted, sideVars>>

LvApply(s) ==
    /\ periodCheckApplyMsg(s, NoSnapshots)
    /\ UNCHANGED <<raftVars, persistVars, votesGranted, sideVars>>

LvMigrateShard(s, d, ok) ==
    /\ LvHasRoom(gidOf(s), 1)
    /\ LvHasRoom(gidOf(d), IF ok THEN 1 ELSE 2)
    /\ MigrateShard(s, d, ok)
    /\ UNCHANGED <<raftVars, persistVars, votesGranted, sideVars>>

LvResume(s) ==
    /\ resumeApplyConfig(s, NoSnapshots)
    /\ UNCHANGED <<raftVars, persistVars, votesGranted, sideVars>>

LiveNext ==
    \/ LvPublish
    \/ \E g \in Gids : LvBecomeLeader(g)
    \/ \E g \in Gids : LvCommit(g)
    \/ \E s \in MigServers : LvPoll(s)
    \/ \E s \in MigServers : LvApply(s)
    \/ \E s \in MigServers, d \in MigServers, ok \in BOOLEAN : LvMigrateShard(s, d, ok)
    \/ \E s \in MigServers : LvResume(s)

LiveFairness ==
    /\ WF_vars(LvPublish)
    /\ \A g \in Gids : WF_vars(LvBecomeLeader(g)) /\ WF_vars(LvCommit(g))
    /\ \A s \in MigServers : WF_vars(LvPoll(s)) /\ WF_vars(LvApply(s)) /\ WF_vars(LvResume(s))
    /\ \A s \in MigServers, d \in MigServers : WF_vars(LvMigrateShard(s, d, TRUE))

SpecLive == Init /\ [][LiveNext]_vars /\ LiveFairness

C21_CommittedEntriesKept ==
    [][\A p \in Peers :
        /\ \A i \in (lastSnapshot'[p].Index + 1)..commitIndex[p] :
                (\E j \in 1..Len(log[p]) : log[p][j].Index = i)
                => (\E j \in 1..Len(log'[p]) : log'[p][j].Index = i)
        /\ commitIndex'[p] >= commitIndex[p]
        /\ commitIndex'[p] <= lastLogEntryOf(log'[p], lastSnapshot'[p])[1]]_vars

\* a peer whose commitIndex is past the end of its log
C21_CommitPastEndOfLog ==
    \E p \in Peers :
        /\ commitIndex[p] > 0
        /\ commitIndex[p] > lastLogEntryOf(log[p], lastSnapshot[p])[1]

(***************************************************************************)
(* SpecTerm: the elections of SpecElection up to term TmMaxTerm.  The      *)
(* election timer fires at peers 1 and 2 (up to TmMaxElections and         *)
(* TmMaxElections2 times), peer 3 only votes; up to TmMaxInFlight replies  *)
(* are with their goroutine at a time.                                     *)
(***************************************************************************)
TmElectionsOf(p) == IF p = 1 THEN TmMaxElections ELSE IF p = 2 THEN TmMaxElections2 ELSE 0

TermNext ==
    \/ \E p \in Peers :
            /\ term[p] < TmMaxTerm
            /\ Len(voteCount[p]) < TmElectionsOf(p)
            /\ beginElection(p)
            /\ UNCHANGED <<shardVars, handlerVars, ckconfig, persistVars, votesGranted, sideVars>>
    \/ \E m \in rvRequests :
            /\ Cardinality(rvReplies) < TmMaxInFlight
            /\ RequestVote(m)
            /\ UNCHANGED <<shardVars, handlerVars, ckconfig, persistVars, votesGranted, sideVars>>
    \/ \E m \in rvReplies : voteReplyCache(m)
            /\ UNCHANGED <<shardVars, handlerVars, ckconfig, persistVars, votesGranted, sideVars>>
    \/ \E m \in rvReplies : voteReplyCount(m)
            /\ UNCHANGED <<shardVars, handlerVars, ckconfig, persistVars, votesGranted, sideVars>>
    \/ \E m \in rvReplies : voteReplyLead(m)
            /\ UNCHANGED <<shardVars, handlerVars, ckconfig, persistVars, votesGranted, sideVars>>
    \/ \E p \in Peers : becomeLeader(p)
            /\ UNCHANGED <<shardVars, handlerVars, ckconfig, persistVars, votesGranted, sideVars>>

SpecTerm == Init /\ [][TermNext]_vars

\* C23: no step lowers the term of a peer: each step of election start, of an RPC
\* handler and of the handling of a reply leaves rf.term equal to or greater than it was.
C23_TermNeverDecreases ==
    [][\A p \in Peers : term'[p] >= term[p]]_vars

\* the goroutine of a reply has read a term of its peer that the peer has left since,
\* and the reply carries a term between the two
C23_ReplyOfPassedTerm ==
    \E m \in rvReplies :
        /\ m.pc = "cached"
        /\ m.Term > m.cachedCurTerm
        /\ term[m.to] > m.Term

(***************************************************************************)
(* Raft with snapshots (raft.go): replication, InstallSnapshot and the     *)
(* apply pipeline of peers whose log a snapshot has cut.  Every handler    *)
(* runs under the lock of its peer and is one step; the Persister is       *)
(* written where the code calls persist or SaveStateAndSnapshot.           *)
(***************************************************************************)
SnPeers == {1, 2}

\* raft.go:209-222, persist: the Persister of p after it, with the values given
persist(p, t, v, lg, snap) == SaveRaftState(persister[p], getPersistState(t, v, lg, snap))

(***************************************************************************)
(* raft.go:794-859, 292-319 and 760-784, run without interleaving: p calls *)
(* beginElection, q grants its vote, p counts it and runs becomeLeader,    *)
(* which sets nextIndex to the index after p's last entry.  Both persist.  *)
(***************************************************************************)
electWithSnapshot(p, q) ==
    LET newTerm == term[p] + 1
        mine == lastLogEntryOf(log[p], lastSnapshot[p])
        theirs == lastLogEntryOf(log[q], lastSnapshot[q])
    IN  /\ p # q
        /\ state[p] # Leader
        /\ newTerm > term[q]
        /\ IF theirs[2] = mine[2] THEN theirs[1] <= mine[1] ELSE theirs[2] < mine[2]
        /\ term' = [term EXCEPT ![p] = newTerm, ![q] = newTerm]
        /\ state' = [state EXCEPT ![p] = Leader, ![q] = Follower]
        /\ votedFor' = [votedFor EXCEPT ![p] = p, ![q] = p]
        /\ nextIndex' = [nextIndex EXCEPT
                ![p] = [r \in Peers |-> IF r = p THEN 0 ELSE mine[1] + 1]]
        /\ matchIndex' = [matchIndex EXCEPT ![p] = [r \in Peers |-> 0]]
        /\ persister' = [persister EXCEPT
                ![p] = persist(p, newTerm, p, log[p], lastSnapshot[p]),
                ![q] = persist(q, newTerm, p, log[q], lastSnapshot[q])]
        /\ UNCHANGED <<log, commitIndex, voteCount, pendingLeader,
                       rvRequests, rvReplies, aeRequests, aeReplies,
                       lastSnapshot, applier, isRequests, applyVars>>

(***************************************************************************)
(* raft.go:618-690, sendAppendEntries up to the RPC, of a leader that may  *)
(* hold a snapshot: the entry before nextIndex[q] is the one before it in  *)
(* the log, or the snapshot for the first entry of the log.                *)
(***************************************************************************)
appendEntriesArgsWithSnapshot(p, q) ==
    LET last == lastLogEntryOf(log[p], lastSnapshot[p])
        at == { i \in 1..Len(log[p]) : log[p][i].Index = nextIndex[p][q] }
        inLog == last[1] > 0 /\ last[1] >= nextIndex[p][q]
        i == CHOOSE j \in at : \A k \in at : j <= k
        prev == IF inLog /\ at # {}
                THEN IF i > 1 THEN <<log[p][i - 1].Index, log[p][i - 1].Term>>
                     ELSE <<lastSnapshot[p].Index, lastSnapshot[p].Term>>
                ELSE IF inLog THEN <<0, 0>> ELSE last
    IN  [Term |-> term[p], LeaderId |-> p, to |-> q,
         PreLogIndex |-> prev[1], PreLogTerm |-> prev[2],
         Entries |-> IF inLog /\ at # {} THEN SubSeq(log[p], i, Len(log[p])) ELSE <<>>,
         LeaderCommit |-> commitIndex[p]]

sendAppendEntriesWithSnapshot(p, q) ==
    /\ state[p] = Leader
    /\ q # p
    /\ nextIndex[p][q] > lastSnapshot[p].Index
    /\ aeRequests' = aeRequests \cup {appendEntriesArgsWithSnapshot(p, q)}
    /\ UNCHANGED <<term, state, votedFor, log, commitIndex, nextIndex, matchIndex,
                   voteCount, pendingLeader, rvRequests, rvReplies, aeReplies,
                   persistVars>>

(***************************************************************************)
(* raft.go:346-461, the AppendEntries handler of a peer that may hold a    *)
(* snapshot.  A call of an earlier term returns at once.  Otherwise        *)
(* turnToFollow persists, with votedFor -1 and before the term is          *)
(* assigned; a call whose previous entry is below the snapshot returns     *)
(* there (raft.go:375-379); the other paths reach persist at the end.      *)
(***************************************************************************)
AppendEntriesWithSnapshot(m) ==
    LET p == m.to
        snap == lastSnapshot[p]
        pos == preLogIndexInCurLogPos(log[p], m.PreLogIndex, m.PreLogTerm)
        PrevIsBeginningOfLog == m.PreLogIndex = 0 /\ m.PreLogTerm = 0
        PrevMatchedSnapshotIndexAndTerm ==
            m.PreLogIndex = snap.Index /\ m.PreLogTerm = snap.Term
        accepted == pos > 0 \/ PrevIsBeginningOfLog \/ PrevMatchedSnapshotIndexAndTerm
        k == consistentPrefix(log[p], pos, m.Entries, 0)
        newLog == SubSeq(log[p], 1, pos + k) \o SubSeq(m.Entries, k + 1, Len(m.Entries))
        latestLogIndex == IF Len(newLog) > 0 THEN newLog[Len(newLog)].Index ELSE snap.Index
        newCommit == IF m.LeaderCommit > commitIndex[p]
                     THEN Min(m.LeaderCommit, latestLogIndex) ELSE commitIndex[p]
        reply(success, conflict) ==
            [from |-> p, to |-> m.LeaderId, args |-> m, Term |-> term[p],
             Success |-> success, ConflictingLogIndex |-> conflict]
    IN  /\ m \in aeRequests
        /\ aeRequests' = aeRequests \ {m}
        /\ IF m.Term < term[p]
           THEN /\ aeReplies' = aeReplies \cup {reply(FALSE, 0)}
                /\ UNCHANGED <<term, state, votedFor, log, commitIndex, persister,
                               notifyApplyCh>>
           ELSE /\ state' = [state EXCEPT ![p] = Follower]
                /\ term' = [term EXCEPT ![p] = m.Term]
                /\ votedFor' = [votedFor EXCEPT ![p] = m.LeaderId]
                /\ IF m.PreLogIndex < snap.Index
                   THEN /\ aeReplies' = aeReplies \cup {reply(FALSE, snap.Index + 1)}
                        /\ persister' = [persister EXCEPT ![p] =
                                persist(p, term[p], NoVote, log[p], snap)]
                        /\ UNCHANGED <<log, commitIndex, notifyApplyCh>>
                   ELSE IF accepted
                   THEN /\ log' = [log EXCEPT ![p] = newLog]
                        /\ commitIndex' = [commitIndex EXCEPT ![p] = newCommit]
                        /\ notifyApplyCh' = [notifyApplyCh EXCEPT ![p] =
                                IF newCommit > commitIndex[p] THEN @ + 1 ELSE @]
                        /\ aeReplies' = aeReplies \cup {reply(TRUE, 0)}
                        /\ persister' = [persister EXCEPT ![p] =
                                persist(p, m.Term, m.LeaderId, newLog, snap)]
                   ELSE /\ aeReplies' = aeReplies \cup
                                {reply(FALSE, conflictingLogIndex(log[p], m.PreLogIndex))}
                        /\ persister' = [persister EXCEPT ![p] =
                                persist(p, m.Term, m.LeaderId, log[p], snap)]
                        /\ UNCHANGED <<log, commitIndex, notifyApplyCh>>
        /\ UNCHANGED <<nextIndex, matchIndex, voteCount, pendingLeader, rvRequests, rvReplies,
                       lastSnapshot, applier, isRequests, isReplies, applyLoop, delivered>>

(***************************************************************************)
(* raft.go:692-726, sendAppendEntries after the RPC returned, with the     *)
(* persist of the step down and the notification of a new commitIndex      *)
(* (raft.go:600-604).                                                      *)
(***************************************************************************)
appendEntriesReplyWithSnapshot(r) ==
    LET p == r.to
        q == r.from
        newMatch == [matchIndex[p] EXCEPT ![q] = r.args.PreLogIndex + Len(r.args.Entries)]
        newCommit == updateCommitIndex(p, newMatch)
        lastIndex == lastLogEntryOf(log[p], lastSnapshot[p])[1]
    IN  /\ r \in aeReplies
        /\ aeReplies' = aeReplies \ {r}
        /\ IF state[p] # Leader \/ r.args.Term # term[p]
           THEN UNCHANGED <<term, state, votedFor, commitIndex, nextIndex, matchIndex,
                            persister, notifyApplyCh>>
           ELSE IF r.Term > term[p]
           THEN /\ term' = [term EXCEPT ![p] = r.Term]
                /\ state' = [state EXCEPT ![p] = Follower]
                /\ votedFor' = [votedFor EXCEPT ![p] = NoVote]
                /\ persister' = [persister EXCEPT ![p] =
                        persist(p, r.Term, NoVote, log[p], lastSnapshot[p])]
                /\ UNCHANGED <<commitIndex, nextIndex, matchIndex, notifyApplyCh>>
           ELSE IF r.Success
           THEN IF Len(r.args.Entries) > 0
                THEN /\ matchIndex' = [matchIndex EXCEPT ![p] = newMatch]
                     /\ nextIndex' = [nextIndex EXCEPT ![p][q] = newMatch[q] + 1]
                     /\ commitIndex' = [commitIndex EXCEPT ![p] = newCommit]
                     /\ notifyApplyCh' = [notifyApplyCh EXCEPT ![p] =
                            IF newCommit # commitIndex[p] THEN @ + 1 ELSE @]
                     /\ UNCHANGED <<term, state, votedFor, persister>>
                ELSE UNCHANGED <<term, state, votedFor, commitIndex, nextIndex, matchIndex,
                                 persister, notifyApplyCh>>
           ELSE /\ nextIndex' = [nextIndex EXCEPT ![p][q] =
                        Max(1, Min(r.ConflictingLogIndex, lastIndex))]
                /\ UNCHANGED <<term, state, votedFor, commitIndex, matchIndex, persister,
                               notifyApplyCh>>
        /\ UNCHANGED <<log, voteCount, pendingLeader, rvRequests, rvReplies, aeRequests,
                       lastSnapshot, applier, isRequests, isReplies, applyLoop, delivered>>


(***************************************************************************)
(* raft.go:1115-1159, the InstallSnapshot handler with its reply and the   *)
(* notification of the apply loop.  reply.Term is the term before the      *)
(* handler adopts the leader's.                                            *)
(***************************************************************************)
InstallSnapshotWithReply(m) ==
    LET p == m.to
        truncationStartIndex == m.LastIncludedIndex - lastSnapshot[p].Index
        snap == [Index |-> m.LastIncludedIndex, Term |-> m.LastIncludedTerm]
        lg == IF truncationStartIndex < Len(log[p])
              THEN SubSeq(log[p], truncationStartIndex + 1, Len(log[p]))
              ELSE <<>>
        newCommit == Max(commitIndex[p], m.LastIncludedIndex)
    IN  /\ m \in isRequests
        /\ isRequests' = isRequests \ {m}
        /\ isReplies' = isReplies \cup
                {[from |-> p, to |-> m.LeaderId, args |-> m, Term |-> term[p]]}
        /\ IF m.Term < term[p]
           THEN UNCHANGED <<term, state, votedFor, log, commitIndex, lastSnapshot,
                            persister, applier, notifyApplyCh>>
           ELSE /\ term' = [term EXCEPT ![p] = m.Term]
                /\ state' = [state EXCEPT ![p] = Follower]
                /\ votedFor' = [votedFor EXCEPT ![p] = m.LeaderId]
                /\ IF m.LastIncludedIndex > lastSnapshot[p].Index
                   THEN /\ lastSnapshot' = [lastSnapshot EXCEPT ![p] = snap]
                        /\ commitIndex' = [commitIndex EXCEPT ![p] = newCommit]
                        /\ log' = [log EXCEPT ![p] = lg]
                        /\ persister' = [persister EXCEPT ![p] =
                                SaveStateAndSnapshot(@,
                                    getPersistState(m.Term, m.LeaderId, lg, snap), m.Data)]
                        /\ applier' = [applier EXCEPT ![p].lastApplied =
                                IF newCommit > commitIndex[p] THEN 0 ELSE @]
                        /\ notifyApplyCh' = [notifyApplyCh EXCEPT ![p] =
                                IF newCommit > commitIndex[p] THEN @ + 1 ELSE @]
                   ELSE /\ persister' = [persister EXCEPT ![p] =
                                persist(p, m.Term, m.LeaderId, log[p], lastSnapshot[p])]
                        /\ UNCHANGED <<log, commitIndex, lastSnapshot, applier,
                                       notifyApplyCh>>
        /\ UNCHANGED <<nextIndex, matchIndex, voteCount, pendingLeader,
                       rvRequests, rvReplies, aeRequests, aeReplies, applyLoop, delivered>>

(***************************************************************************)
(* raft.go:1087-1111, sendSnapshot after the RPC returned: a later term    *)
(* makes the peer a follower (turnToFollow persists); the leader of the    *)
(* term of the call moves nextIndex past the snapshot it sent.             *)
(***************************************************************************)
sendSnapshotReply(r) ==
    LET p == r.to
        q == r.from
    IN  /\ r \in isReplies
        /\ isReplies' = isReplies \ {r}
        /\ IF r.Term > term[p]
           THEN /\ term' = [term EXCEPT ![p] = r.Term]
                /\ state' = [state EXCEPT ![p] = Follower]
                /\ votedFor' = [votedFor EXCEPT ![p] = NoVote]
                /\ persister' = [persister EXCEPT ![p] =
                        persist(p, r.Term, NoVote, log[p], lastSnapshot[p])]
                /\ UNCHANGED nextIndex
           ELSE IF r.args.Term # term[p] \/ state[p] # Leader
           THEN UNCHANGED <<term, state, votedFor, persister, nextIndex>>
           ELSE /\ nextIndex' = [nextIndex EXCEPT ![p][q] = r.args.LastIncludedIndex + 1]
                /\ UNCHANGED <<term, state, votedFor, persister>>
        /\ UNCHANGED <<log, commitIndex, matchIndex, voteCount, pendingLeader,
                       rvRequests, rvReplies, aeRequests, aeReplies,
                       lastSnapshot, applier, isRequests, notifyApplyCh, applyLoop, delivered>>

(***************************************************************************)
(* raft.go:946-1007, startLocalApplyProcess, in the critical sections of   *)
(* the code.  It takes one notification, reads commitIndex, lastApplied    *)
(* and lastSnapshotIndex under the lock and releases the lock.             *)
(***************************************************************************)
applyNotified(p) ==
    /\ applyLoop[p].pc = "idle"
    /\ notifyApplyCh[p] > 0
    /\ notifyApplyCh' = [notifyApplyCh EXCEPT ![p] = @ - 1]
    /\ applyLoop' = [applyLoop EXCEPT ![p] =
            [IdleLoop EXCEPT !.pc = "cached",
                             !.cachedCommitIndex = commitIndex[p],
                             !.cachedLocalApplied = applier[p].lastApplied,
                             !.cachedSnapshotIndex = lastSnapshot[p].Index]]
    /\ UNCHANGED <<raftVars, lastSnapshot, persister, applier, isRequests, isReplies,
                   delivered>>

\* the entries that the loop copies under the lock (raft.go:972-985): from the entry
\* with index lastApplied + 1, or from the first one when the log holds no such entry, to
\* the last entry of the log whose index is at most commitIndex
entriesToApply(p) ==
    LET found == findLogIndex(log[p], applier[p].lastApplied + 1)
        startIndex == Max(found, 1)
        ends == { i \in startIndex..Len(log[p]) : log[p][i].Index <= commitIndex[p] }
    IN  IF ends = {} THEN <<>>
        ELSE SubSeq(log[p], startIndex, CHOOSE i \in ends : \A j \in ends : i >= j)

(***************************************************************************)
(* On the values it read the loop takes one of three ways.  Behind the     *)
(* snapshot, it reads the snapshot of the Persister and sends it on the    *)
(* apply channel (raft.go:957-964): the service receives it when it has    *)
(* handled the message before, and loads it (server.go:346-350).  Behind   *)
(* commitIndex, it copies the entries to send under the lock.  Otherwise   *)
(* it waits for the next notification.                                     *)
(***************************************************************************)
applyBranch(p) ==
    LET l == applyLoop[p] IN
    /\ l.pc = "cached"
    /\ IF l.cachedLocalApplied < l.cachedSnapshotIndex
       THEN /\ ~applier[p].pending
            /\ applyLoop' = [applyLoop EXCEPT ![p].pc = "snapshot"]
            /\ delivered' = [delivered EXCEPT ![p] = decodedSnapshotIndex(persister[p])]
            /\ applier' = [applier EXCEPT ![p] = serviceLoads(@, persister[p])]
       ELSE IF l.cachedCommitIndex > l.cachedLocalApplied /\ entriesToApply(p) # <<>>
       THEN /\ applyLoop' = [applyLoop EXCEPT ![p].pc = "sending",
                                              ![p].entries = entriesToApply(p)]
            /\ UNCHANGED <<delivered, applier>>
       ELSE /\ applyLoop' = [applyLoop EXCEPT ![p] = IdleLoop]
            /\ UNCHANGED <<delivered, applier>>
    /\ UNCHANGED <<raftVars, lastSnapshot, persister, isRequests, isReplies, notifyApplyCh>>

\* raft.go:966-969: after the snapshot is sent, lastApplied is the snapshot index read
\* before, and persist
applySnapshotDone(p) ==
    /\ applyLoop[p].pc = "snapshot"
    /\ applier' = [applier EXCEPT ![p].lastApplied = applyLoop[p].cachedSnapshotIndex]
    /\ persister' = [persister EXCEPT ![p] =
            persist(p, term[p], votedFor[p], log[p], lastSnapshot[p])]
    /\ applyLoop' = [applyLoop EXCEPT ![p] = IdleLoop]
    /\ UNCHANGED <<raftVars, lastSnapshot, isRequests, isReplies, notifyApplyCh, delivered>>

\* raft.go:989-997: the next entry of the batch is sent on the apply channel, without the
\* lock; the service receives it when it has handled the message before
applySend(p) ==
    LET l == applyLoop[p]
        v == l.entries[l.sent + 1]
    IN  /\ l.pc = "sending"
        /\ l.sent < Len(l.entries)
        /\ ~applier[p].pending
        /\ applyLoop' = [applyLoop EXCEPT ![p].sent = @ + 1]
        /\ delivered' = [delivered EXCEPT ![p] = v.Index]
        /\ applier' = [applier EXCEPT ![p] = serviceApplies(@, v)]
        /\ UNCHANGED <<raftVars, lastSnapshot, persister, isRequests, isReplies,
                       notifyApplyCh>>

\* raft.go:998-1001: the batch is sent, lastApplied grows by its length
applyDone(p) ==
    LET l == applyLoop[p] IN
    /\ l.pc = "sending"
    /\ l.sent = Len(l.entries)
    /\ applier' = [applier EXCEPT ![p].lastApplied = @ + Len(l.entries)]
    /\ applyLoop' = [applyLoop EXCEPT ![p] = IdleLoop]
    /\ UNCHANGED <<raftVars, lastSnapshot, persister, isRequests, isReplies, notifyApplyCh,
                   delivered>>

(***************************************************************************)
(* SpecSnap: peers 1 and 2 of a group of three, peer 3 silent.  Elections  *)
(* up to term SnMaxTerm, log indexes up to SnMaxLog, the service takes a   *)
(* snapshot once the log holds PsMaxRaftState entries, up to SnMaxInFlight *)
(* AppendEntries calls and replies, of them SnMaxReplies replies, and     *)
(* SnMaxSnapInFlight InstallSnapshot calls and replies in flight, up to    *)
(* SnMaxNotify notifications waiting.                                      *)
(* The election timer fires at peer 1.  No peer crashes.                   *)
(***************************************************************************)
SnHasRoom(p) == notifyApplyCh[p] < SnMaxNotify
SnCandidates == {1}     \* the peers whose election timer fires

SnapNext ==
    \/ \E p \in SnCandidates, q \in SnPeers : term[p] < SnMaxTerm /\ electWithSnapshot(p, q)
            /\ UNCHANGED <<shardVars, handlerVars, ckconfig, votesGranted, sideVars>>
    \/ \E p \in SnPeers :
            lastLogEntryOf(log[p], lastSnapshot[p])[1] < SnMaxLog /\ startEntry(p)
            /\ UNCHANGED <<shardVars, handlerVars, ckconfig, votesGranted, sideVars>>
    \/ \E p \in SnPeers, q \in SnPeers :
            /\ Cardinality(aeRequests) + Cardinality(aeReplies) < SnMaxInFlight
            /\ sendAppendEntriesWithSnapshot(p, q)
            /\ UNCHANGED <<shardVars, handlerVars, ckconfig, votesGranted, sideVars>>
    \/ \E m \in aeRequests :
            /\ SnHasRoom(m.to)
            /\ Cardinality(aeReplies) < SnMaxReplies
            /\ AppendEntriesWithSnapshot(m)
            /\ UNCHANGED <<shardVars, handlerVars, ckconfig, votesGranted, sideVars>>
    \/ \E r \in aeReplies : SnHasRoom(r.to) /\ appendEntriesReplyWithSnapshot(r)
            /\ UNCHANGED <<shardVars, handlerVars, ckconfig, votesGranted, sideVars>>
    \/ \E q \in SnPeers, p \in SnPeers :
            /\ Cardinality(isRequests) + Cardinality(isReplies) < SnMaxSnapInFlight
            /\ nextIndex[q][p] <= lastSnapshot[q].Index
            /\ sendSnapshot(q, p)
            /\ UNCHANGED <<shardVars, handlerVars, ckconfig, votesGranted, sideVars>>
    \/ \E m \in isRequests : SnHasRoom(m.to) /\ InstallSnapshotWithReply(m)
            /\ UNCHANGED <<shardVars, handlerVars, ckconfig, votesGranted, sideVars>>
    \/ \E r \in isReplies : sendSnapshotReply(r)
            /\ UNCHANGED <<shardVars, handlerVars, ckconfig, votesGranted, sideVars>>
    \/ \E p \in SnPeers : applyNotified(p)
            /\ UNCHANGED <<shardVars, handlerVars, ckconfig, votesGranted, sideVars>>
    \/ \E p \in SnPeers : applyBranch(p)
            /\ UNCHANGED <<shardVars, handlerVars, ckconfig, votesGranted, sideVars>>
    \/ \E p \in SnPeers : applySnapshotDone(p)
            /\ UNCHANGED <<shardVars, handlerVars, ckconfig, votesGranted, sideVars>>
    \/ \E p \in SnPeers : applySend(p)
            /\ UNCHANGED <<shardVars, handlerVars, ckconfig, votesGranted, sideVars>>
    \/ \E p \in SnPeers : applyDone(p)
            /\ UNCHANGED <<shardVars, handlerVars, ckconfig, votesGranted, sideVars>>
    \/ \E p \in SnPeers : snapshotIfNeeded(p)
            /\ UNCHANGED <<shardVars, handlerVars, ckconfig, votesGranted, sideVars>>

SpecSnap == Init /\ [][SnapNext]_vars


\* the Raft state that Make would read from the Persister of p: what was saved last,
\* or the values Make starts from when nothing was saved (raft.go:228-230, 1030-1038)
readPersist(p) ==
    IF persister[p].raftstate = <<>>
    THEN getPersistState(0, NoVote, <<>>, [Index |-> 0, Term |-> 0])
    ELSE persister[p].raftstate

\* C22: whenever a handler of RequestVote, AppendEntries or InstallSnapshot, or Start,
\* has returned, the persisted Raft state (term, votedFor, log, lastSnapshotIndex,
\* lastSnapshotTerm) of the peer equals the values in memory.
C22_PersistedStateIsCurrent ==
    \A p \in SnPeers :
        readPersist(p) = getPersistState(term[p], votedFor[p], log[p], lastSnapshot[p])

\* a follower has answered an AppendEntries call whose previous entry is below its
\* snapshot
C22_RepliedBelowSnapshot ==
    \E r \in aeReplies :
        /\ ~r.Success
        /\ r.args.Term >= r.Term
        /\ r.args.PreLogIndex < lastSnapshot[r.from].Index
        /\ r.ConflictingLogIndex = lastSnapshot[r.from].Index + 1

\* the log lg of a peer with snapshot snap is well formed
wellFormedLog(lg, snap) ==
    /\ \A i \in 1..Len(lg) : lg[i].Index >= 1
    /\ \A i \in 2..Len(lg) : lg[i].Index = lg[i - 1].Index + 1
    /\ \A i \in 2..Len(lg) : lg[i].Term >= lg[i - 1].Term
    /\ Len(lg) > 0 => lg[1].Index \in {snap.Index, snap.Index + 1}

\* C24: in every reachable state the log of every peer has consecutive indexes, all at
\* least 1, its first entry has index lastSnapshotIndex or lastSnapshotIndex + 1, and
\* its terms do not decrease along the log.
C24_LogWellFormed ==
    \A p \in SnPeers : wellFormedLog(log[p], lastSnapshot[p])

(***************************************************************************)
(* SpecLogTerm: elections up to term LtMaxTerm with logs of up to LtMaxLog *)
(* entries.  The election timer fires at peer 2 (up to LtMaxElections      *)
(* times) and at peer 1 (up to LtMaxElections1 times); peers 1 and 2       *)
(* answer the RequestVote calls of these elections, the calls to peer 3    *)
(* stay in flight; up to LtMaxInFlight replies are with their goroutine at *)
(* a time.  After them peer 2 runs elections without interleaving, with    *)
(* the vote of one other peer.  Leaders start entries.                     *)
(***************************************************************************)
LtElectionsOf(p) == IF p = 2 THEN LtMaxElections ELSE IF p = 1 THEN LtMaxElections1 ELSE 0
LtVoters == {1, 2}

LogTermNext ==
    \/ \E p \in Peers :
            /\ term[p] < LtMaxTerm
            /\ Len(voteCount[p]) < LtElectionsOf(p)
            /\ beginElection(p)
            /\ UNCHANGED <<shardVars, handlerVars, ckconfig, persistVars, votesGranted, sideVars>>
    \/ \E m \in rvRequests :
            /\ m.to \in LtVoters
            /\ Cardinality(rvReplies) < LtMaxInFlight
            /\ RequestVote(m)
            /\ UNCHANGED <<shardVars, handlerVars, ckconfig, persistVars, votesGranted, sideVars>>
    \/ \E m \in rvReplies : voteReplyCache(m)
            /\ UNCHANGED <<shardVars, handlerVars, ckconfig, persistVars, votesGranted, sideVars>>
    \/ \E m \in rvReplies : voteReplyCount(m)
            /\ UNCHANGED <<shardVars, handlerVars, ckconfig, persistVars, votesGranted, sideVars>>
    \/ \E m \in rvReplies : voteReplyLead(m)
            /\ UNCHANGED <<shardVars, handlerVars, ckconfig, persistVars, votesGranted, sideVars>>
    \/ \E p \in Peers : becomeLeader(p)
            /\ UNCHANGED <<shardVars, handlerVars, ckconfig, persistVars, votesGranted, sideVars>>
    \/ \E q \in Peers \ {2} :
            /\ term[2] < LtMaxTerm
            /\ Len(voteCount[2]) >= LtMaxElections
            /\ electLeader(2, {2, q})
            /\ UNCHANGED <<shardVars, handlerVars, ckconfig, persistVars, votesGranted, sideVars>>
    \/ \E p \in Peers :
            /\ Len(log[p]) < LtMaxLog
            /\ Start(p, "x")
            /\ UNCHANGED <<shardVars, handlerVars, ckconfig, persistVars, votesGranted, sideVars>>

SpecLogTerm == Init /\ [][LogTermNext]_vars

\* a peer is leader of a term below the term of the last entry of its log
C24_LeaderBelowLastTerm ==
    \E p \in Peers :
        /\ state[p] = Leader
        /\ Len(log[p]) > 0
        /\ term[p] < log[p][Len(log[p])].Term

(***************************************************************************)
(* SpecApply: the leader of term 1 (peer 1) and its follower (peer 2) with *)
(* their apply loops and services, log indexes up to SnMaxLog, up to       *)
(* ApMaxInFlight AppendEntries calls and replies in flight, up to          *)
(* SnMaxNotify notifications waiting.  Peer 2 crashes and is started again *)
(* from its Persister.  SpecApplyLive adds what the scheduler gives: an    *)
(* apply loop that can take a step takes it, and a service that was sent a *)
(* message handles it.  It asks nothing of timers and of the network.      *)
(***************************************************************************)
ApRestarts == {2}

ApplyNext ==
    \/ \E p \in SnCandidates, q \in SnPeers : term[p] < SnMaxTerm /\ electWithSnapshot(p, q)
            /\ UNCHANGED <<shardVars, handlerVars, ckconfig, votesGranted, sideVars>>
    \/ \E p \in SnPeers :
            lastLogEntryOf(log[p], lastSnapshot[p])[1] < SnMaxLog /\ startEntry(p)
            /\ UNCHANGED <<shardVars, handlerVars, ckconfig, votesGranted, sideVars>>
    \/ \E p \in SnPeers, q \in SnPeers :
            /\ Cardinality(aeRequests) + Cardinality(aeReplies) < ApMaxInFlight
            /\ sendAppendEntriesWithSnapshot(p, q)
            /\ UNCHANGED <<shardVars, handlerVars, ckconfig, votesGranted, sideVars>>
    \/ \E m \in aeRequests : SnHasRoom(m.to) /\ AppendEntriesWithSnapshot(m)
            /\ UNCHANGED <<shardVars, handlerVars, ckconfig, votesGranted, sideVars>>
    \/ \E r \in aeReplies : SnHasRoom(r.to) /\ appendEntriesReplyWithSnapshot(r)
            /\ UNCHANGED <<shardVars, handlerVars, ckconfig, votesGranted, sideVars>>
    \/ \E p \in SnPeers : applyNotified(p)
            /\ UNCHANGED <<shardVars, handlerVars, ckconfig, votesGranted, sideVars>>
    \/ \E p \in SnPeers : applyBranch(p)
            /\ UNCHANGED <<shardVars, handlerVars, ckconfig, votesGranted, sideVars>>
    \/ \E p \in SnPeers : applySnapshotDone(p)
            /\ UNCHANGED <<shardVars, handlerVars, ckconfig, votesGranted, sideVars>>
    \/ \E p \in SnPeers : applySend(p)
            /\ UNCHANGED <<shardVars, handlerVars, ckconfig, votesGranted, sideVars>>
    \/ \E p \in SnPeers : applyDone(p)
            /\ UNCHANGED <<shardVars, handlerVars, ckconfig, votesGranted, sideVars>>
    \/ \E p \in SnPeers : snapshotIfNeeded(p)
            /\ UNCHANGED <<shardVars, handlerVars, ckconfig, votesGranted, sideVars>>
    \/ \E p \in ApRestarts : Make(p)
            /\ UNCHANGED <<shardVars, handlerVars, ckconfig, votesGranted, sideVars>>

SpecApply == Init /\ [][ApplyNext]_vars

\* one step of the apply loop of peer p
startLocalApplyProcess(p) ==
    /\ \/ applyNotified(p)
       \/ applyBranch(p)
       \/ applySnapshotDone(p)
       \/ applySend(p)
       \/ applyDone(p)
    /\ UNCHANGED <<shardVars, handlerVars, ckconfig, votesGranted, sideVars>>

\* the service of peer p handles the message it was sent
serviceHandles(p) ==
    snapshotIfNeeded(p) /\ UNCHANGED <<shardVars, handlerVars, ckconfig, votesGranted, sideVars>>

SpecApplyLive ==
    /\ SpecApply
    /\ \A p \in SnPeers : WF_vars(startLocalApplyProcess(p)) /\ WF_vars(serviceHandles(p))

\* the apply loop of p waits for a notification, none is waiting, and the service has
\* handled what it was sent
atApplyBoundary(p) ==
    /\ applyLoop[p].pc = "idle"
    /\ notifyApplyCh[p] = 0
    /\ ~applier[p].pending

\* C26: whenever commitIndex of a peer is past its lastApplied, the apply loop comes to
\* have delivered everything up to commitIndex, with nothing but the steps of the loop
\* and of the service required.
C26_CommittedIsApplied ==
    \A p \in SnPeers :
        (commitIndex[p] > applier[p].lastApplied) ~> (delivered[p] >= commitIndex[p])

\* a peer that holds a snapshot is at an apply boundary with lastApplied at the snapshot
\* and commitIndex past it
C26_IdleBehindCommit ==
    \E p \in SnPeers :
        /\ atApplyBoundary(p)
        /\ lastSnapshot[p].Index > 0
        /\ applier[p].lastApplied = lastSnapshot[p].Index
        /\ commitIndex[p] > applier[p].lastApplied
        /\ delivered[p] < commitIndex[p]

\* C27: at every apply boundary of every peer, also right after a restart,
\* lastApplied >= lastSnapshotIndex >= 0 and commitIndex >= lastApplied.
C27_AppliedBetweenSnapshotAndCommit ==
    \A p \in SnPeers :
        atApplyBoundary(p) =>
            /\ applier[p].lastApplied >= lastSnapshot[p].Index
            /\ lastSnapshot[p].Index >= 0
            /\ commitIndex[p] >= applier[p].lastApplied

\* a peer that was started again from a persisted snapshot is at an apply boundary
C27_RestartedWithSnapshot ==
    \E p \in ApRestarts :
        /\ atApplyBoundary(p)
        /\ lastSnapshot[p].Index > 0
        /\ commitIndex[p] = 0
        /\ applier[p].lastApplied = 0

\* C25: every command that the apply loop of a peer sends on the apply channel has the
\* index after the one the messages sent before brought the service to (the index of
\* the command before it, or of the snapshot sent or loaded last), and an index of at
\* most commitIndex.
C25_DeliveredInLogOrder ==
    [][\A p \in SnPeers :
        applySend(p) =>
            /\ delivered'[p] = delivered[p] + 1
            /\ delivered'[p] <= commitIndex[p]]_vars

\* the apply loop has copied a batch that starts before or after the entry that follows
\* the last one delivered
C25_BatchOutOfOrder ==
    \E p \in SnPeers :
        /\ applyLoop[p].pc = "sending"
        /\ applyLoop[p].sent = 0
        /\ applyLoop[p].entries[1].Index # delivered[p] + 1

\* C28: an InstallSnapshot with args.Term >= rf.term and LastIncludedIndex greater than
\* lastSnapshotIndex sets lastSnapshotIndex and lastSnapshotTerm to the arguments, leaves
\* in the log exactly the entries after LastIncludedIndex, makes commitIndex at least
\* LastIncludedIndex, clears lastApplied, and persists state and snapshot together; any
\* other InstallSnapshot leaves log, snapshot, commitIndex and lastApplied unchanged.
C28_InstallSnapshotEffect ==
    [][\A m \in isRequests :
        LET p == m.to IN
        InstallSnapshotWithReply(m) =>
            IF m.Term >= term[p] /\ m.LastIncludedIndex > lastSnapshot[p].Index
            THEN /\ lastSnapshot'[p] = [Index |-> m.LastIncludedIndex,
                                        Term |-> m.LastIncludedTerm]
                 /\ log'[p] = SelectSeq(log[p], LAMBDA e : e.Index > m.LastIncludedIndex)
                 /\ commitIndex'[p] >= m.LastIncludedIndex
                 /\ applier'[p].lastApplied = 0
                 /\ persister'[p] =
                        [raftstate |-> getPersistState(term'[p], votedFor'[p], log'[p],
                                                       lastSnapshot'[p]),
                         snapshot |-> m.Data]
            ELSE /\ log'[p] = log[p]
                 /\ lastSnapshot'[p] = lastSnapshot[p]
                 /\ commitIndex'[p] = commitIndex[p]
                 /\ applier'[p].lastApplied = applier[p].lastApplied]_vars

\* an InstallSnapshot call is in flight to a follower that holds a snapshot of its own,
\* earlier than the one of the call
C28_InstallOverOwnSnapshot ==
    \E m \in isRequests :
        /\ m.Term >= term[m.to]
        /\ lastSnapshot[m.to].Index > 0
        /\ m.LastIncludedIndex > lastSnapshot[m.to].Index

\* ---------------------------------------------------------------------------------------
\* SpecLoad: the snapshot-aware Raft peers of SpecSnap with the content of the service
\* (KV map and duplicate table) carried by the applier, a service that snapshots as soon
\* as the log holds LdMaxRaftState entries, and a restart of peer 2. Every log entry i is
\* the client operation Append("a", <<i>>) of client 1 with serial number i, so the shard
\* status array and the configuration keep their initial values.
LoadNext ==
    \/ \E p \in SnCandidates, q \in SnPeers : term[p] < SnMaxTerm /\ electWithSnapshot(p, q)
            /\ UNCHANGED <<shardVars, handlerVars, ckconfig, votesGranted, sideVars>>
    \/ \E p \in SnPeers :
            lastLogEntryOf(log[p], lastSnapshot[p])[1] < SnMaxLog /\ startEntry(p)
            /\ UNCHANGED <<shardVars, handlerVars, ckconfig, votesGranted, sideVars>>
    \/ \E p \in SnPeers, q \in SnPeers :
            /\ Cardinality(aeRequests) + Cardinality(aeReplies) < SnMaxInFlight
            /\ sendAppendEntriesWithSnapshot(p, q)
            /\ UNCHANGED <<shardVars, handlerVars, ckconfig, votesGranted, sideVars>>
    \/ \E m \in aeRequests :
            /\ SnHasRoom(m.to)
            /\ Cardinality(aeReplies) < SnMaxReplies
            /\ AppendEntriesWithSnapshot(m)
            /\ UNCHANGED <<shardVars, handlerVars, ckconfig, votesGranted, sideVars>>
    \/ \E r \in aeReplies : SnHasRoom(r.to) /\ appendEntriesReplyWithSnapshot(r)
            /\ UNCHANGED <<shardVars, handlerVars, ckconfig, votesGranted, sideVars>>
    \/ \E q \in SnPeers, p \in SnPeers :
            /\ Cardinality(isRequests) + Cardinality(isReplies) < SnMaxSnapInFlight
            /\ nextIndex[q][p] <= lastSnapshot[q].Index
            /\ sendSnapshot(q, p)
            /\ UNCHANGED <<shardVars, handlerVars, ckconfig, votesGranted, sideVars>>
    \/ \E m \in isRequests : SnHasRoom(m.to) /\ InstallSnapshotWithReply(m)
            /\ UNCHANGED <<shardVars, handlerVars, ckconfig, votesGranted, sideVars>>
    \/ \E r \in isReplies : sendSnapshotReply(r)
            /\ UNCHANGED <<shardVars, handlerVars, ckconfig, votesGranted, sideVars>>
    \/ \E p \in SnPeers : applyNotified(p)
            /\ UNCHANGED <<shardVars, handlerVars, ckconfig, votesGranted, sideVars>>
    \/ \E p \in SnPeers : applyBranch(p)
            /\ UNCHANGED <<shardVars, handlerVars, ckconfig, votesGranted, sideVars>>
    \/ \E p \in SnPeers : applySnapshotDone(p)
            /\ UNCHANGED <<shardVars, handlerVars, ckconfig, votesGranted, sideVars>>
    \/ \E p \in SnPeers : applySend(p)
            /\ UNCHANGED <<shardVars, handlerVars, ckconfig, votesGranted, sideVars>>
    \/ \E p \in SnPeers : applyDone(p)
            /\ UNCHANGED <<shardVars, handlerVars, ckconfig, votesGranted, sideVars>>
    \/ \E p \in SnPeers : snapshotIfNeededAt(p, LdMaxRaftState)
            /\ UNCHANGED <<shardVars, handlerVars, ckconfig, votesGranted, sideVars>>
    \/ \E p \in ApRestarts : Make(p)
            /\ UNCHANGED <<shardVars, handlerVars, ckconfig, votesGranted, sideVars>>
SpecLoad == Init /\ [][LoadNext]_vars

\* the service state after the log entries 1..i were applied in order on a fresh replica
RECURSIVE appliedThrough(_)
appliedThrough(i) ==
    IF i = 0 THEN FreshKV
    ELSE applyClientOp(appliedThrough(i - 1), clientOpOf([Index |-> i]))

\* the service of p loads a snapshot: the UseSnapshot message of the apply loop, or the
\* snapshot read from the persister at restart
serviceLoadsSnapshot(p) ==
    \/ applyBranch(p) /\ applyLoop'[p].pc = "snapshot"
    \/ Make(p) /\ persister[p].snapshot # <<>>

\* C29: when a replica loads a snapshot whose last included index is i (delivered after
\* InstallSnapshot or read at restart), its KV map and duplicate table equal those of a
\* replica that applied the log entries 1..i in order.
C29_LoadedSnapshotIsAppliedPrefix ==
    [][\A p \in SnPeers :
        serviceLoadsSnapshot(p) =>
            LET ref == appliedThrough(applier'[p].SnapshotIndex)
            IN  /\ applier'[p].Kvmap = ref.Kvmap
                /\ applier'[p].latestRequests = ref.latestRequests]_vars

\* a replica holds a persisted snapshot taken after it applied entry 2 without entry 1
C29_SnapshotSkipsEntry ==
    \E p \in SnPeers :
        /\ persister[p].snapshot # <<>>
        /\ decodedSnapshotIndex(persister[p]) = 2
        /\ persister[p].snapshot[1].Kvmap # appliedThrough(2).Kvmap

(***************************************************************************)
(* SpecProbe: the leader of term 1 (peer 1) and its follower (peer 2) with *)
(* snapshots, for the back-off of nextIndex.  The leader starts up to      *)
(* PrMaxLog entries, the service of a peer snapshots when the log holds    *)
(* PrMaxRaftState entries at the time it handles an entry, up to           *)
(* PrMaxInFlight AppendEntries calls or replies are in flight (the         *)
(* heartbeat timer sends a call again while the reply of the one before is *)
(* on its way).  An iteration of the apply loop and the handling of the    *)
(* service run to their end before another handler of the group runs.      *)
(***************************************************************************)
loopIdle(p) == applyLoop[p].pc = "idle" /\ ~applier[p].pending

loopsIdle == \A p \in SnPeers : loopIdle(p)

\* raft.go:728-758, appendEntriesLoopForPeer: the task of leader p for peer q sends
\* AppendEntries, or InstallSnapshot when nextIndex[q] is within the snapshot
leaderSends(p, q) ==
    /\ loopsIdle
    /\ \/ /\ Cardinality(aeRequests) + Cardinality(aeReplies) < PrMaxInFlight
          /\ sendAppendEntriesWithSnapshot(p, q)
       \/ /\ Cardinality(isRequests) + Cardinality(isReplies) < SnMaxSnapInFlight
          /\ nextIndex[p][q] <= lastSnapshot[p].Index
          /\ sendSnapshot(p, q)
    /\ UNCHANGED <<shardVars, handlerVars, ckconfig, votesGranted, sideVars>>

\* a call in flight reaches its peer, whose handler runs
rpcDelivered ==
    /\ loopsIdle
    /\ \/ \E m \in aeRequests :
            /\ SnHasRoom(m.to)
            /\ Cardinality(aeReplies) < SnMaxReplies
            /\ AppendEntriesWithSnapshot(m)
       \/ \E m \in isRequests : SnHasRoom(m.to) /\ InstallSnapshotWithReply(m)
    /\ UNCHANGED <<shardVars, handlerVars, ckconfig, votesGranted, sideVars>>

\* a reply in flight reaches the caller, which goes on after the RPC
replyHandled ==
    /\ loopsIdle
    /\ \/ \E r \in aeReplies : SnHasRoom(r.to) /\ appendEntriesReplyWithSnapshot(r)
       \/ \E r \in isReplies : sendSnapshotReply(r)
    /\ UNCHANGED <<shardVars, handlerVars, ckconfig, votesGranted, sideVars>>

\* an iteration of the apply loop of p, begun when no other peer is within one
applyLoopRuns(p) ==
    /\ \A q \in SnPeers \ {p} : loopIdle(q)
    /\ startLocalApplyProcess(p)

\* the service of p handles the entry it was sent
serviceHandlesAt(p) ==
    /\ snapshotIfNeededAt(p, PrMaxRaftState)
    /\ UNCHANGED <<shardVars, handlerVars, ckconfig, votesGranted, sideVars>>

ProbeNext ==
    \/ \E p \in SnCandidates, q \in SnPeers :
            /\ loopsIdle
            /\ term[p] < SnMaxTerm
            /\ electWithSnapshot(p, q)
            /\ UNCHANGED <<shardVars, handlerVars, ckconfig, votesGranted, sideVars>>
    \/ \E p \in SnCandidates :
            /\ loopsIdle
            /\ lastLogEntryOf(log[p], lastSnapshot[p])[1] < PrMaxLog
            /\ startEntry(p)
            /\ UNCHANGED <<shardVars, handlerVars, ckconfig, votesGranted, sideVars>>
    \/ \E p \in SnCandidates, q \in SnPeers : leaderSends(p, q)
    \/ rpcDelivered
    \/ replyHandled
    \/ \E p \in SnPeers : applyLoopRuns(p)
    \/ \E p \in SnPeers : serviceHandlesAt(p)

SpecProbe == Init /\ [][ProbeNext]_vars

\* the timer of the leader's task for each peer, the delivery of calls and replies, the
\* apply loops and the services keep running; clients need not send new commands
SpecProbeLive ==
    /\ SpecProbe
    /\ \A p \in SnCandidates : \A q \in SnPeers : WF_vars(leaderSends(p, q))
    /\ WF_vars(rpcDelivered)
    /\ WF_vars(replyHandled)
    /\ \A p \in SnPeers : WF_vars(applyLoopRuns(p)) /\ WF_vars(serviceHandlesAt(p))

\* a follower has rejected a probe of the leader of its term, and the reply is on its way
probeRejected ==
    \E r \in aeReplies :
        ~r.Success /\ state[r.to] = Leader /\ r.args.Term = term[r.to] /\ r.Term = term[r.to]

\* the last entry of q (of its log, or of its snapshot) is the last entry of p
inSync(p, q) ==
    lastLogEntryOf(log[q], lastSnapshot[q]) = lastLogEntryOf(log[p], lastSnapshot[p])

\* C30: with a leader that stays leader and eventual delivery of RPCs, the back-off of
\* nextIndex, the follower's conflict index for probes below its snapshot and the switch
\* to InstallSnapshot bring every follower to the leader's log after finitely many
\* rounds: from some point on the follower holds the leader's last entry and no probe of
\* the leader is rejected any more.
C30_ReplicationConverges ==
    \A p \in SnCandidates : \A q \in SnPeers \ {p} :
        (state[p] = Leader) ~> [](inSync(p, q) /\ ~probeRejected)

\* the follower's snapshot ends at the leader's last entry, the leader's own snapshot
\* ends below it, and the leader's nextIndex for the follower is backed off to that entry
C30_ProbeBelowFollowerSnapshot ==
    \E p \in SnCandidates : \E q \in SnPeers \ {p} :
        /\ state[p] = Leader
        /\ lastSnapshot[q].Index = lastLogEntryOf(log[p], lastSnapshot[p])[1]
        /\ lastSnapshot[p].Index < lastSnapshot[q].Index
        /\ nextIndex[p][q] = lastSnapshot[q].Index
        /\ loopsIdle
        /\ notifyApplyCh[p] = 0

(***************************************************************************)
(* SpecConfig: the actions of Spec without client operations, with up to   *)
(* CfMaxCfg configurations, logs of up to CfMaxLog entries and terms up to *)
(* CfMaxTerm, for the absorption of configurations.                        *)
(***************************************************************************)
CfHasRoom(g, n) == Len(rlog[g]) + n <= CfMaxLog

ConfigNext ==
    \/ \E shards \in NextShards : Len(configs) - 1 < CfMaxCfg /\ Publish(shards)
            /\ UNCHANGED <<raftVars, persistVars, votesGranted, sideVars>>
    \/ \E g \in Gids, r \in Replicas, n \in 0..CfMaxLog :
            rterm[g] < CfMaxTerm /\ BecomeLeader(g, r, n)
            /\ UNCHANGED <<raftVars, persistVars, votesGranted, sideVars>>
    \/ \E g \in Gids : Commit(g)
            /\ UNCHANGED <<raftVars, persistVars, votesGranted, sideVars>>
    \/ \E s \in MigServers :
            CfHasRoom(gidOf(s), Len(configs) - 1) /\ periodCheckShardMasterConfig(s)
            /\ UNCHANGED <<raftVars, persistVars, votesGranted, sideVars>>
    \/ \E s \in MigServers : periodCheckApplyMsg(s, NoSnapshots)
            /\ UNCHANGED <<raftVars, persistVars, votesGranted, sideVars>>
    \/ \E s \in MigServers, d \in MigServers, ok \in BOOLEAN :
            CfHasRoom(gidOf(s), 1) /\ CfHasRoom(gidOf(d), 1) /\ MigrateShard(s, d, ok)
            /\ UNCHANGED <<raftVars, persistVars, votesGranted, sideVars>>
    \/ \E s \in MigServers : resumeApplyConfig(s, NoSnapshots)
            /\ UNCHANGED <<raftVars, persistVars, votesGranted, sideVars>>

SpecConfig == Init /\ [][ConfigNext]_vars

\* the entry the apply loop of s takes next
nextCmd(s) == rlog[gidOf(s)][lastApplied[s] + 1].Cmd

statusEdges(st, cmd, sh) ==
    CASE cmd.Method = "ApplyConfig" ->
            {<<NOTOWNED, IMPORTING>>, <<AVAILABLE, EXPORTING>>, <<IMPORTING, NOTOWNED>>}
            \cup (IF st.LatestCfg.Shards[sh] = 0 THEN {<<NOTOWNED, AVAILABLE>>} ELSE {})
      [] cmd.Method = "ExportComplete" /\ cmd.ShardNumber = sh -> {<<EXPORTING, NOTOWNED>>}
      [] cmd.Method = "ImportComplete" /\ cmd.ShardNumber = sh -> {<<IMPORTING, AVAILABLE>>}
      [] OTHER -> {}

\* C32: every change of the status of a shard on a replica that has applied its first
\* configuration is an edge of the status machine, taken by applying the command of
\* that edge; an ExportComplete applied while the shard is not EXPORTING and an
\* ImportComplete applied while it is not IMPORTING change no status.
C32_StatusChangesAreEdges ==
    [][\A s \in MigServers : \A sh \in Shards :
        (/\ kv[s].LatestCfg.Num > 0
         /\ kv'[s].ShardStatusList[sh] # kv[s].ShardStatusList[sh]) =>
            <<kv[s].ShardStatusList[sh], kv'[s].ShardStatusList[sh]>>
                \in statusEdges(kv[s], nextCmd(s), sh)]_vars

\* the next entry of a replica is an ImportComplete for a shard that it holds as
\* NOTOWNED or EXPORTING
C32_ImportCompleteWhileNotImporting ==
    \E s \in MigServers :
        /\ lastApplied[s] < rcommit[gidOf(s)]
        /\ ~sending[s].active
        /\ kv[s].LatestCfg.Num > 0
        /\ nextCmd(s).Method = "ImportComplete"
        /\ kv[s].ShardStatusList[nextCmd(s).ShardNumber] \in {NOTOWNED, EXPORTING}

(***************************************************************************)
(* C33.  Shard statuses of a replica at rest.                              *)
(***************************************************************************)
statusOfConfig(st, gid, sh) ==
    IF st.LatestCfg.Shards[sh] = gid THEN AVAILABLE ELSE NOTOWNED

\* C33: in every state of a replica in which no shard is EXPORTING or
\* IMPORTING, a shard is AVAILABLE exactly when LatestCfg assigns it to the
\* replica's group and NOTOWNED otherwise; a replica that has applied no
\* configuration (LatestCfg.Num = 0) holds no shard as AVAILABLE.
C33_StatusAtRestMatchesConfig ==
    \A s \in MigServers :
        ~shardTransferInProgress(kv[s]) =>
            \A sh \in Shards :
                kv[s].ShardStatusList[sh] = statusOfConfig(kv[s], gidOf(s), sh)

\* A replica that has absorbed a configuration, is at rest, and holds as
\* AVAILABLE a shard its configuration assigns to another group.
C33_AvailableShardOfAnotherGroup ==
    \E s \in MigServers : \E sh \in Shards :
        /\ kv[s].LatestCfg.Num > 0
        /\ ~shardTransferInProgress(kv[s])
        /\ kv[s].LatestCfg.Shards[sh] # gidOf(s)
        /\ kv[s].ShardStatusList[sh] = AVAILABLE

(***************************************************************************)
(* C34.  Client writes and the status of the key's shard at apply time.    *)
(***************************************************************************)
servedAtApply(st, cmd) ==
    st.ShardStatusList[key2shard(cmd.Key)] \in {AVAILABLE, EXPORTING}

\* C34: a Put or Append the apply loop delivers changes Kvmap and
\* latestRequests only if the key's shard is AVAILABLE or EXPORTING on that
\* replica when it is applied; applied while the shard is IMPORTING or
\* NOTOWNED it leaves both unchanged.
C34_WritesOnlyToServedShards ==
    [][\A s \in MigServers :
        (/\ periodCheckApplyMsg(s, NoSnapshots)
         /\ nextCmd(s).Method \in {"Put", "Append"}
         /\ ~servedAtApply(kv[s], nextCmd(s))) =>
            /\ kv'[s].Kvmap = kv[s].Kvmap
            /\ kv'[s].latestRequests = kv[s].latestRequests]_vars

\* A committed, not yet applied, new Put or Append is next at a replica on
\* which the key's shard is IMPORTING or NOTOWNED.
C34_WriteDueOnUnservedShard ==
    \E s \in MigServers :
        /\ lastApplied[s] < rcommit[gidOf(s)]
        /\ ~sending[s].active
        /\ nextCmd(s).Method \in {"Put", "Append"}
        /\ ~servedAtApply(kv[s], nextCmd(s))
        /\ ~isRequestDuplicate(kv[s], key2shard(nextCmd(s).Key),
                               nextCmd(s).ClientId, nextCmd(s).SerialNum)

(***************************************************************************)
(* C35.  await and the mutex of kv.                                        *)
(***************************************************************************)
\* C35: await releases the mutex of kv on every return path, also when a
\* waiter is already registered for the index: in no state is the mutex
\* held by a handler that has returned, which nothing can release.
C35_AwaitReleasesMutex ==
    \A s \in Servers : ~mutex[s]

\* A handler is about to enter await for an index at which an earlier
\* handler, which has timed out, left its waiter.
C35_AwaitOnRegisteredIndex ==
    \E h \in DOMAIN calls :
        LET s == calls[h].server
        IN  /\ calls[h].pc = "await"
            /\ ~mutex[s]
            /\ calls[h].index \in DOMAIN requestHandlers[s]
            /\ calls[requestHandlers[s][calls[h].index]].pc = "replied"

(***************************************************************************)
(* The tasks of one shardkv replica and kv.mu, statement by statement      *)
(* where the mutex, Start, an RPC or a channel is involved.  What the      *)
(* other components answer (rf.IsLeader, rf.Start, the shard master, the   *)
(* destination group, the kind of the message on applyCh) is an input.     *)
(***************************************************************************)
Lock(t) == kvmu = NoTask /\ kvmu' = t
UnLock(t) == kvmu' = NoTask
goto(t, l) == taskpc' = [taskpc EXCEPT ![t] = l]

\* server.go:622-623: the timer of the poller fires and it locks kv
pollerLock ==
    /\ taskpc["poller"] = "timer"
    /\ Lock("poller") /\ goto("poller", "locked")
    /\ UNCHANGED <<pollerLeft, sendSi, isDecommissioned>>

\* server.go:624-633: the poller returns when decommissioned, goes back to its
\* timer when not the leader, and otherwise calls Query(-1), kv still locked
pollerCheck(isLeader) ==
    /\ taskpc["poller"] = "locked"
    /\ IF isDecommissioned THEN UnLock("poller") /\ goto("poller", "done")
       ELSE IF ~isLeader THEN UnLock("poller") /\ goto("poller", "timer")
       ELSE goto("poller", "Query") /\ UNCHANGED kvmu
    /\ UNCHANGED <<pollerLeft, sendSi, isDecommissioned>>

\* server.go:635-643: Query(-1) returns a configuration n ahead of LatestCfg;
\* Query(curCfgNum) returns a configuration that is not the latest
pollerQuery(n) ==
    /\ taskpc["poller"] = "Query"
    /\ IF pollerLeft = 0
       THEN IF n = 0
            THEN UnLock("poller") /\ goto("poller", "timer") /\ UNCHANGED pollerLeft
            ELSE /\ pollerLeft' = n
                 /\ goto("poller", IF n = 1 THEN "Start" ELSE "Query")
                 /\ UNCHANGED kvmu
       ELSE goto("poller", "Start") /\ UNCHANGED <<kvmu, pollerLeft>>
    /\ UNCHANGED <<sendSi, isDecommissioned>>

\* server.go:645-656: rf.Start(ops) returns; the loop goes on while the replica
\* leads and configurations are left, then kv is unlocked
pollerStart(isleader) ==
    /\ taskpc["poller"] = "Start"
    /\ IF isleader /\ pollerLeft > 1
       THEN /\ pollerLeft' = pollerLeft - 1
            /\ goto("poller", IF pollerLeft = 2 THEN "Start" ELSE "Query")
            /\ UNCHANGED kvmu
       ELSE pollerLeft' = 0 /\ UnLock("poller") /\ goto("poller", "timer")
    /\ UNCHANGED <<sendSi, isDecommissioned>>

\* server.go:340-341: a message arrives on applyCh
applierReceive ==
    /\ taskpc["applier"] = "select"
    /\ goto("applier", "received")
    /\ UNCHANGED <<kvmu, pollerLeft, sendSi, isDecommissioned>>

\* server.go:428-429: kv.shutdown is closed
applierShutdown ==
    /\ taskpc["applier"] = "select"
    /\ isDecommissioned
    /\ goto("applier", "done")
    /\ UNCHANGED <<kvmu, pollerLeft, sendSi, isDecommissioned>>

\* server.go:341: kv.Lock() of the apply loop
applierLock ==
    /\ taskpc["applier"] = "received"
    /\ Lock("applier") /\ goto("applier", "applying")
    /\ UNCHANGED <<pollerLeft, sendSi, isDecommissioned>>

\* the message is a client operation or a completion ("op"), an ApplyConfig that
\* moves no shard of this leader ("config"), one that gives the group a shard it
\* held before ("gain": Query of earlier configurations, server.go:586-590), or
\* one that takes an AVAILABLE shard from this leader ("lose", server.go:549-564)
MsgKinds == {"op", "config", "gain", "lose"}

\* server.go:342-427: the message is applied and kv unlocked; in
\* applyConfigOperation the leader queries the shard master with kv locked, or
\* unlocks kv and calls sendMigrateShard
applierApply(kind) ==
    /\ taskpc["applier"] = "applying"
    /\ CASE kind = "gain" -> goto("applier", "Query") /\ UNCHANGED kvmu
         [] kind = "lose" -> UnLock("applier") /\ goto("applier", "sendLock")
         [] OTHER -> UnLock("applier") /\ goto("applier", "select")
    /\ UNCHANGED <<pollerLeft, sendSi, isDecommissioned>>

\* server.go:589: Query returns; the apply loop finishes the message and unlocks
applierQuery ==
    /\ taskpc["applier"] = "Query"
    /\ UnLock("applier") /\ goto("applier", "select")
    /\ UNCHANGED <<pollerLeft, sendSi, isDecommissioned>>

\* server.go:814-830: sendMigrateShard copies the maps under the mutex
applierSendLock ==
    /\ taskpc["applier"] = "sendLock"
    /\ kvmu = NoTask
    /\ sendSi' = 0
    /\ goto("applier", "Call")
    /\ UNCHANGED <<kvmu, pollerLeft, isDecommissioned>>

\* the servers of the destination group
NDest == 2
Replies == {"OK", "WrongLeader", "ErrWrongGroup", "lost"}

\* server.go:835-852: the call to servers[si] returns; on OK from a leader the
\* completion is broadcast, ErrWrongGroup starts over at the first server, and
\* otherwise the next server is called, the first again after the last
applierCall(reply) ==
    /\ taskpc["applier"] = "Call"
    /\ CASE reply = "OK" -> goto("applier", "bcastLock") /\ UNCHANGED sendSi
         [] reply = "ErrWrongGroup" -> sendSi' = 0 /\ UNCHANGED taskpc
         [] OTHER -> sendSi' = (sendSi + 1) % NDest /\ UNCHANGED taskpc
    /\ UNCHANGED <<kvmu, pollerLeft, isDecommissioned>>

\* server.go:798-799: broadcastMigrationStatus locks kv
bcastLock(t) ==
    /\ taskpc[t] = "bcastLock"
    /\ Lock(t) /\ goto(t, "Start")
    /\ UNCHANGED <<pollerLeft, sendSi, isDecommissioned>>

\* server.go:809-810, 799: rf.Start(ops) returns and the deferred UnLock runs;
\* the sender returns into applyConfigOperation, the receiver replies
bcastStart(t) ==
    /\ taskpc[t] = "Start"
    /\ UnLock(t) /\ goto(t, IF t = "applier" THEN "relock" ELSE "idle")
    /\ UNCHANGED <<pollerLeft, sendSi, isDecommissioned>>

\* server.go:564, 615, 427: applyConfigOperation locks kv again, the apply loop
\* finishes the message and unlocks
applierRelock ==
    /\ taskpc["applier"] = "relock"
    /\ kvmu = NoTask
    /\ goto("applier", "select")
    /\ UNCHANGED <<kvmu, pollerLeft, sendSi, isDecommissioned>>

\* server.go:749-750: a MigrateShard call arrives and locks kv
receiverLock ==
    /\ taskpc["receiver"] = "idle"
    /\ Lock("receiver") /\ goto("receiver", "locked")
    /\ UNCHANGED <<pollerLeft, sendSi, isDecommissioned>>

\* server.go:752-788: it returns when not the leader or when the shard is
\* AVAILABLE, and otherwise unlocks and broadcasts ImportComplete
receiverCheck(isLeader, available) ==
    /\ taskpc["receiver"] = "locked"
    /\ UnLock("receiver")
    /\ goto("receiver", IF isLeader /\ ~available THEN "bcastLock" ELSE "idle")
    /\ UNCHANGED <<pollerLeft, sendSi, isDecommissioned>>

\* server.go:273-277: a PutAppend call arrives at the leader and locks kv
handlerLock ==
    /\ taskpc["handler"] = "idle"
    /\ Lock("handler") /\ goto("handler", "locked")
    /\ UNCHANGED <<pollerLeft, sendSi, isDecommissioned>>

\* server.go:279-293: ErrWrongGroup, or the Op is built and kv unlocked
handlerCheck(owns) ==
    /\ taskpc["handler"] = "locked"
    /\ UnLock("handler")
    /\ goto("handler", IF owns THEN "Start" ELSE "idle")
    /\ UNCHANGED <<pollerLeft, sendSi, isDecommissioned>>

\* server.go:296-300: rf.Start(ops) returns
handlerStart(isLeader) ==
    /\ taskpc["handler"] = "Start"
    /\ goto("handler", IF isLeader THEN "await" ELSE "idle")
    /\ UNCHANGED <<kvmu, pollerLeft, sendSi, isDecommissioned>>

\* server.go:168-177: await locks kv; with a waiter registered for the index
\* it returns, kv locked, and the handler replies; otherwise it registers,
\* unlocks and waits
handlerAwait(registered) ==
    /\ taskpc["handler"] = "await"
    /\ kvmu = NoTask
    /\ IF registered
       THEN kvmu' = "handler" /\ goto("handler", "idle")
       ELSE UNCHANGED kvmu /\ goto("handler", "wait")
    /\ UNCHANGED <<pollerLeft, sendSi, isDecommissioned>>

\* server.go:179-196: the message arrives (kv locked for checkIfOwnsKey) or
\* 800 ms pass
handlerWake(timeout) ==
    /\ taskpc["handler"] = "wait"
    /\ ~timeout => kvmu = NoTask
    /\ goto("handler", "idle")
    /\ UNCHANGED <<kvmu, pollerLeft, sendSi, isDecommissioned>>

\* server.go:441-448
Kill ==
    /\ ~isDecommissioned
    /\ isDecommissioned' = TRUE
    /\ UNCHANGED <<kvmu, taskpc, pollerLeft, sendSi>>

\* configurations one Query(-1) can be ahead by
TkMaxNew == 2

pollerStep ==
    \/ pollerLock
    \/ \E isLeader \in BOOLEAN : pollerCheck(isLeader)
    \/ \E n \in 0..TkMaxNew : pollerQuery(n)
    \/ \E isleader \in BOOLEAN : pollerStart(isleader)

senderStep ==
    \/ applierSendLock
    \/ \E reply \in Replies : applierCall(reply)
    \/ bcastLock("applier")
    \/ bcastStart("applier")
    \/ applierRelock

applierStep ==
    \/ applierReceive
    \/ applierLock
    \/ \E kind \in MsgKinds : applierApply(kind)
    \/ applierQuery
    \/ senderStep

(***************************************************************************)
(* SpecTask: the four tasks of a replica that is not killed.               *)
(***************************************************************************)
TaskNext ==
    \/ pollerLock /\ UNCHANGED taskFrame
    \/ \E isLeader \in BOOLEAN : pollerCheck(isLeader) /\ UNCHANGED taskFrame
    \/ \E n \in 0..TkMaxNew : pollerQuery(n) /\ UNCHANGED taskFrame
    \/ \E isleader \in BOOLEAN : pollerStart(isleader) /\ UNCHANGED taskFrame
    \/ applierReceive /\ UNCHANGED taskFrame
    \/ applierLock /\ UNCHANGED taskFrame
    \/ \E kind \in MsgKinds : applierApply(kind) /\ UNCHANGED taskFrame
    \/ applierQuery /\ UNCHANGED taskFrame
    \/ applierSendLock /\ UNCHANGED taskFrame
    \/ \E reply \in Replies : applierCall(reply) /\ UNCHANGED taskFrame
    \/ \E t \in {"applier", "receiver"} : bcastLock(t) /\ UNCHANGED taskFrame
    \/ \E t \in {"applier", "receiver"} : bcastStart(t) /\ UNCHANGED taskFrame
    \/ applierRelock /\ UNCHANGED taskFrame
    \/ receiverLock /\ UNCHANGED taskFrame
    \/ \E isLeader \in BOOLEAN, available \in BOOLEAN :
            receiverCheck(isLeader, available) /\ UNCHANGED taskFrame
    \/ handlerLock /\ UNCHANGED taskFrame
    \/ \E owns \in BOOLEAN : handlerCheck(owns) /\ UNCHANGED taskFrame
    \/ \E isLeader \in BOOLEAN : handlerStart(isLeader) /\ UNCHANGED taskFrame
    \/ \E registered \in BOOLEAN : handlerAwait(registered) /\ UNCHANGED taskFrame
    \/ \E timeout \in BOOLEAN : handlerWake(timeout) /\ UNCHANGED taskFrame

SpecTask == Init /\ [][TaskNext]_vars

\* the task is inside rf.Start, inside an RPC, or blocked on a channel
atStartOrBlocked(t) == taskpc[t] \in {"Start", "Query", "Call", "select", "wait"}

\* C36: no task of a replica holds kv.mu while it calls Start on Raft or
\* blocks on a channel receive or an RPC.
C36_NoLockAcrossStartOrBlocking ==
    \A t \in Tasks : atStartOrBlocked(t) => kvmu # t

\* The MigrateShard handler is inside rf.Start, called by
\* broadcastMigrationStatus, and holds kv.mu.
C36_BroadcastStartsUnderLock ==
    taskpc["receiver"] = "Start" /\ kvmu = "receiver"

(***************************************************************************)
(* SpecKill: the long-running tasks of a replica, the poller and the apply *)
(* loop with the migration sender it calls, next to the MigrateShard       *)
(* handler, and Kill.  Every goroutine that can run does run, a mutex that *)
(* is free again and again is acquired, and a select whose shutdown case   *)
(* is ready again and again takes it; what the destination group replies   *)
(* is left to the destination.                                             *)
(***************************************************************************)
KillNext ==
    \/ Kill /\ UNCHANGED taskFrame
    \/ pollerLock /\ UNCHANGED taskFrame
    \/ \E isLeader \in BOOLEAN : pollerCheck(isLeader) /\ UNCHANGED taskFrame
    \/ \E n \in 0..TkMaxNew : pollerQuery(n) /\ UNCHANGED taskFrame
    \/ \E isleader \in BOOLEAN : pollerStart(isleader) /\ UNCHANGED taskFrame
    \/ applierReceive /\ UNCHANGED taskFrame
    \/ applierShutdown /\ UNCHANGED taskFrame
    \/ applierLock /\ UNCHANGED taskFrame
    \/ \E kind \in MsgKinds : applierApply(kind) /\ UNCHANGED taskFrame
    \/ applierQuery /\ UNCHANGED taskFrame
    \/ applierSendLock /\ UNCHANGED taskFrame
    \/ \E reply \in Replies : applierCall(reply) /\ UNCHANGED taskFrame
    \/ \E t \in {"applier", "receiver"} : bcastLock(t) /\ UNCHANGED taskFrame
    \/ \E t \in {"applier", "receiver"} : bcastStart(t) /\ UNCHANGED taskFrame
    \/ applierRelock /\ UNCHANGED taskFrame
    \/ receiverLock /\ UNCHANGED taskFrame
    \/ \E isLeader \in BOOLEAN, available \in BOOLEAN :
            receiverCheck(isLeader, available) /\ UNCHANGED taskFrame

SpecKill == Init /\ [][KillNext]_vars

receiverStep ==
    \/ receiverLock
    \/ \E isLeader \in BOOLEAN, available \in BOOLEAN : receiverCheck(isLeader, available)
    \/ bcastLock("receiver")
    \/ bcastStart("receiver")

SpecKillLive ==
    /\ SpecKill
    /\ SF_vars(pollerStep /\ UNCHANGED taskFrame)
    /\ SF_vars(applierStep /\ UNCHANGED taskFrame)
    /\ SF_vars(applierShutdown /\ UNCHANGED taskFrame)
    /\ SF_vars(receiverStep /\ UNCHANGED taskFrame)

LongRunning == {"poller", "applier"}

\* C37: after Kill every long-running task of the replica terminates,
\* wherever it is, also a migration sender whose destination never
\* acknowledges.
C37_TasksTerminateAfterKill ==
    isDecommissioned ~> (\A t \in LongRunning : taskpc[t] = "done")

\* Kill was called while the apply loop is inside sendMigrateShard, calling
\* the destination.
C37_KilledWhileSending ==
    isDecommissioned /\ taskpc["applier"] = "Call"

(***************************************************************************)
(* The Clerk of kvraft (schedule.go:62-196).  Get and PutAppend loop:      *)
(* args with ck.seqid, a goroutine that calls the server and puts the      *)
(* result in the attempt's own channel done, and a select on 200 ms and    *)
(* done.  What the server replies is an input.                             *)
(***************************************************************************)
\* the application calls Get or PutAppend (schedule.go:123-125, 164-166)
clerkCall(kind) ==
    /\ ck.pc = "idle"
    /\ ck' = [ck EXCEPT !.pc = "loop", !.op = @ + 1, !.kind = kind]
    /\ UNCHANGED <<ckCalls, ckSent>>

\* schedule.go:127-135, 168-176: args and reply are built, ck.leader is reduced
\* modulo the number of servers and the goroutine is started
clerkSend ==
    LET args == [ClientId |-> CkClientId, SeqId |-> ck.seqid]
    IN  /\ ck.pc = "loop"
        /\ ck' = [ck EXCEPT !.leader = @ % NServers, !.pc = "select",
                            !.attempt = @ + 1, !.done = <<>>]
        /\ ckCalls' = ckCalls \cup {[attempt |-> ck.attempt + 1, args |-> args]}
        /\ ckSent' = Append(ckSent, [op |-> ck.op, args |-> args])

\* schedule.go:133-134, 174-175: Call returns in a goroutine, which sends ok
\* on the channel of its attempt; the Clerk reads only the channel of the
\* attempt it is waiting for
callReturns(c, ok, wrongLeader, err) ==
    /\ c \in ckCalls
    /\ ckCalls' = ckCalls \ {c}
    /\ ck' = IF c.attempt = ck.attempt /\ ck.pc = "select"
             THEN [ck EXCEPT !.done = <<[ok |-> ok, WrongLeader |-> wrongLeader, Err |-> err]>>]
             ELSE ck
    /\ UNCHANGED ckSent

\* a Clerk that gives the operation the next seqid when an attempt times out
clerkTimeoutAdvancing ==
    /\ ck.pc = "select"
    /\ ck' = [ck EXCEPT !.leader = @ + 1, !.seqid = @ + 1, !.pc = "loop"]
    /\ UNCHANGED <<ckCalls, ckSent>>

\* schedule.go:137-139, 178-180: 200 ms pass
clerkTimeout ==
    /\ ck.pc = "select"
    /\ ck' = [ck EXCEPT !.leader = @ + 1, !.pc = "loop"]
    /\ UNCHANGED <<ckCalls, ckSent>>

\* schedule.go:141, 182: Get is done on ok and no wrong_leader, PutAppend when
\* moreover Err is OK
clerkSuccess(kind, r) ==
    r.ok /\ ~r.WrongLeader /\ (kind = "PutAppend" => r.Err = "OK")

\* schedule.go:140-148, 181-186: done is received; on success seqid is
\* incremented and the operation returns, otherwise the next server is tried
clerkDone ==
    /\ ck.pc = "select"
    /\ ck.done # <<>>
    /\ ck' = IF clerkSuccess(ck.kind, ck.done[1])
             THEN [ck EXCEPT !.seqid = @ + 1, !.pc = "idle", !.done = <<>>]
             ELSE [ck EXCEPT !.leader = @ + 1, !.pc = "loop", !.done = <<>>]
    /\ UNCHANGED <<ckCalls, ckSent>>

(***************************************************************************)
(* SpecClerk: one Clerk, a few operations, a few attempts.                 *)
(***************************************************************************)
ClerkNext ==
    \/ \E kind \in {"Get", "PutAppend"} :
            ck.op < CkMaxOps /\ clerkCall(kind) /\ UNCHANGED clerkFrame
    \/ Len(ckSent) < CkMaxSends /\ clerkSend /\ UNCHANGED clerkFrame
    \/ \E c \in ckCalls, ok \in BOOLEAN, wrongLeader \in BOOLEAN, err \in {"", "OK", "ErrNoKey"} :
            callReturns(c, ok, wrongLeader, err) /\ UNCHANGED clerkFrame
    \/ clerkTimeout /\ UNCHANGED clerkFrame
    \/ clerkDone /\ UNCHANGED clerkFrame

SpecClerk == Init /\ [][ClerkNext]_vars

\* the Clerk has received, for the attempt it waits for, a reply without wrong_leader
clerkReplied ==
    ck.pc = "select" /\ ck.done # <<>> /\ ck.done[1].ok /\ ~ck.done[1].WrongLeader

\* C38: the Clerk sends every retry of an operation with the same
\* (ClientId, SeqId); seqid changes only by one and only when the operation
\* received a reply without wrong_leader; so the SeqIds of successive
\* operations increase and no two operations share one.
C38_SerialPerOperation ==
    [][/\ ck'.seqid # ck.seqid => (ck'.seqid = ck.seqid + 1 /\ clerkReplied)
       /\ \A i \in DOMAIN ckSent', j \in DOMAIN ckSent' :
            /\ ckSent'[i].args.ClientId = ckSent'[j].args.ClientId
            /\ (ckSent'[i].op = ckSent'[j].op) <=>
                    (ckSent'[i].args.SeqId = ckSent'[j].args.SeqId)
            /\ (ckSent'[i].op < ckSent'[j].op) =>
                    (ckSent'[i].args.SeqId < ckSent'[j].args.SeqId)]_vars

\* The first operation was sent twice, one attempt timed out and its reply
\* came late, and the second operation has been sent.
C38_RetriedThenNextOperation ==
    /\ Len(ckSent) >= 3
    /\ ckSent[1].op = 1 /\ ckSent[2].op = 1 /\ ckSent[3].op = 2
    /\ \E c \in ckCalls : c.attempt = 1

(***************************************************************************)
(* The KVServer of kvraft (part_000): the handlers up to Start and         *)
(* applyDaemon, on a server that leads and receives its log in order.      *)
(* duplicate[c] is the LatestReply of client c.  The size of the Raft      *)
(* state, which decides on a snapshot, is an input.                        *)
(***************************************************************************)
KsClients == {1, 2}
KsKeys == {"a"}
KsOps == {"Get", "Put", "Append"}

\* part_000:60-68, 110-117: the request is answered from the table
answeredFromTable(duplicate, args) ==
    args.ClientId \in DOMAIN duplicate /\ args.SeqId <= duplicate[args.ClientId].SeqId

\* part_000:50-74, 99-123: Get and PutAppend of a leader up to Start; a request
\* at or below the recorded SeqId is answered at once, any other is started and
\* its channel registered at the index
kvsRequest(op, key, clientId, seqId) ==
    LET args == [Key |-> key, ClientId |-> clientId, SeqId |-> seqId]
        cmd == [Key |-> key, Value |-> IF op = "Get" THEN <<>> ELSE <<seqId>>,
                Op |-> op, ClientId |-> clientId, SeqId |-> seqId]
    IN  IF answeredFromTable(kvs.duplicate, args)
        THEN UNCHANGED <<kvs, kvsLog, kvsWrites>>
        ELSE /\ kvsLog' = Append(kvsLog, cmd)
             /\ kvs' = [kvs EXCEPT !.notifyChs = @ \cup {Len(kvsLog) + 1}]
             /\ UNCHANGED kvsWrites

\* a server that applies a command whose SeqId is the recorded one again
appliesNewOrSame(duplicate, cmd) ==
    cmd.ClientId \notin DOMAIN duplicate \/ duplicate[cmd.ClientId].SeqId <= cmd.SeqId

\* part_000:161: no entry for the client, or a smaller SeqId recorded
appliesNew(duplicate, cmd) ==
    cmd.ClientId \notin DOMAIN duplicate \/ duplicate[cmd.ClientId].SeqId < cmd.SeqId

\* part_000:162-171: the command on db and the table
applyCmd(st, cmd) ==
    CASE cmd.Op = "Get" ->
            [st EXCEPT !.duplicate = MapPut(@, cmd.ClientId,
                            [SeqId |-> cmd.SeqId, Value |-> MapGet(st.db, cmd.Key)])]
      [] cmd.Op = "Put" ->
            [st EXCEPT !.db = MapPut(@, cmd.Key, cmd.Value),
                       !.duplicate = MapPut(@, cmd.ClientId,
                            [SeqId |-> cmd.SeqId, Value |-> <<>>])]
      [] cmd.Op = "Append" ->
            [st EXCEPT !.db = MapPut(@, cmd.Key, MapGet(st.db, cmd.Key) \o cmd.Value),
                       !.duplicate = MapPut(@, cmd.ClientId,
                            [SeqId |-> cmd.SeqId, Value |-> <<>>])]

\* part_000:199-212 with RaftStateSize() = size
needSnapshot(maxraftstate, size) ==
    IF maxraftstate < 0 THEN FALSE
    ELSE IF maxraftstate < size THEN TRUE
    ELSE (maxraftstate - size) < (maxraftstate \div 10)

\* part_000:149-193: applyDaemon receives the next committed command; above
\* snapshotIndex it applies it when new, snapshots when needed (part_000:218),
\* and closes and deletes the channel registered at the index
applyDaemon(maxraftstate, size) ==
    LET index == kvs.applied + 1
        cmd == kvsLog[index]
        new == appliesNew(kvs.duplicate, cmd)
        st1 == IF new THEN applyCmd(kvs, cmd) ELSE kvs
        st2 == IF needSnapshot(maxraftstate, size)
               THEN [st1 EXCEPT !.snapshotIndex = index] ELSE st1
    IN  /\ kvs.applied < Len(kvsLog)
        /\ IF index > kvs.snapshotIndex
           THEN /\ kvs' = [st2 EXCEPT !.notifyChs = @ \ {index}, !.applied = index]
                /\ kvsWrites' = IF new /\ cmd.Op \in {"Put", "Append"}
                                THEN Append(kvsWrites, <<cmd.ClientId, cmd.SeqId>>)
                                ELSE kvsWrites
           ELSE /\ kvs' = [kvs EXCEPT !.applied = index]
                /\ UNCHANGED kvsWrites
        /\ UNCHANGED kvsLog

(***************************************************************************)
(* SpecKVServer: two clients, requests with any SeqId in any order, also   *)
(* repeated and older ones; maxraftstate 10.                               *)
(***************************************************************************)
KVServerNext ==
    \/ \E op \in KsOps, key \in KsKeys, clientId \in KsClients, seqId \in 1..KsMaxSeq :
            /\ Len(kvsLog) < KsMaxLog
            /\ kvsRequest(op, key, clientId, seqId)
            /\ UNCHANGED kvsFrame
    \/ \E size \in {0, KsMaxRaftState} :
            applyDaemon(KsMaxRaftState, size) /\ UNCHANGED kvsFrame

SpecKVServer == Init /\ [][KVServerNext]_vars

\* the SeqId recorded for client c, 0 when none is
recordedSeqId(duplicate, c) == IF c \in DOMAIN duplicate THEN duplicate[c].SeqId ELSE 0

workerRegisters(w) ==
    /\ w \notin mrRegistered
    /\ mrRegistered' = mrRegistered \cup {w}
    /\ registerChan' = registerChan \cup {w}
    /\ UNCHANGED <<mrTask, waitGroup, mrReturned, mrSucceeded, mrCompleted, mrHandedBack>>

\* schedule.go:51: workerName = <-registerChan
taskReceives(t, w) ==
    /\ mrTask[t].pc = "receive"
    /\ w \in registerChan
    /\ registerChan' = registerChan \ {w}
    /\ mrTask' = [mrTask EXCEPT ![t] = [pc |-> "call", workerName |-> w]]
    /\ UNCHANGED <<waitGroup, mrReturned, mrRegistered, mrSucceeded, mrCompleted, mrHandedBack>>

\* a goroutine that leaves its loop when the call returns, whatever it returned
taskCallReturnsOnce(t, callSuccess) ==
    LET w == mrTask[t].workerName
    IN  /\ mrTask[t].pc = "call"
        /\ mrTask' = [mrTask EXCEPT ![t].pc = "done"]
        /\ registerChan' = registerChan \cup {w}
        /\ mrHandedBack' = mrHandedBack \cup {w}
        /\ waitGroup' = waitGroup - 1
        /\ mrSucceeded' = IF callSuccess THEN mrSucceeded \cup {t} ELSE mrSucceeded
        /\ mrCompleted' = IF callSuccess THEN mrCompleted \cup {w} ELSE mrCompleted
        /\ UNCHANGED <<mrReturned, mrRegistered>>

\* schedule.go:47-54: call() returns; on false the loop receives the next
\* worker; on true the worker is sent back on registerChan by a goroutine of
\* its own and wait_group.Done() runs
taskCallReturns(t, callSuccess) ==
    LET w == mrTask[t].workerName
    IN  /\ mrTask[t].pc = "call"
        /\ IF callSuccess
           THEN /\ mrTask' = [mrTask EXCEPT ![t].pc = "done"]
                /\ registerChan' = registerChan \cup {w}
                /\ mrHandedBack' = mrHandedBack \cup {w}
                /\ waitGroup' = waitGroup - 1
                /\ mrSucceeded' = mrSucceeded \cup {t}
                /\ mrCompleted' = mrCompleted \cup {w}
           ELSE /\ mrTask' = [mrTask EXCEPT ![t].pc = "receive"]
                /\ UNCHANGED <<registerChan, mrHandedBack, waitGroup, mrSucceeded, mrCompleted>>
        /\ UNCHANGED <<mrReturned, mrRegistered>>

\* schedule.go:57-60: wait_group.Wait() returns and so does schedule()
scheduleReturns ==
    /\ waitGroup = 0
    /\ ~mrReturned
    /\ mrReturned' = TRUE
    /\ UNCHANGED <<mrTask, registerChan, waitGroup, mrRegistered, mrSucceeded, mrCompleted,
                   mrHandedBack>>

ScheduleNext ==
    \/ \E w \in MrWorkerNames : workerRegisters(w) /\ UNCHANGED mrFrame
    \/ \E t \in MrTaskIds, w \in MrWorkerNames : taskReceives(t, w) /\ UNCHANGED mrFrame
    \/ \E t \in MrTaskIds, callSuccess \in BOOLEAN :
            taskCallReturns(t, callSuccess) /\ UNCHANGED mrFrame
    \/ scheduleReturns /\ UNCHANGED mrFrame

SpecSchedule == Init /\ [][ScheduleNext]_vars

\* C40: schedule() returns only after every task of the phase had a
\* Worker.DoTask call return true; a call that returns false does not
\* count, the task then receives the next worker from registerChan; and a
\* worker is sent back on registerChan only after it completed a task.
C40_ReturnsAfterEveryTaskSucceeded ==
    [][/\ mrReturned' => mrSucceeded' = MrTaskIds
       /\ \A t \in MrTaskIds :
            /\ mrTask'[t].pc = "done" => t \in mrSucceeded'
            /\ (mrTask[t].pc = "call" /\ mrTask'[t].pc # "call" /\ t \notin mrSucceeded') =>
                    (mrTask'[t].pc = "receive" /\ waitGroup' = waitGroup)
       /\ waitGroup' = MrTasks - Cardinality(mrSucceeded')
       /\ mrHandedBack' \subseteq mrCompleted']_vars

\* schedule() has returned although a call to one worker failed: a worker that
\* registered and was received completed nothing and is not offered again.
C40_ReturnedAfterFailedCall ==
    /\ mrReturned
    /\ \E w \in mrRegistered : w \notin mrCompleted /\ w \notin registerChan

====
